---- MODULE Spec2Model ----
(***************************************************************************)
(* Storage layer of the study application (services/storageService.ts) and *)
(* the App handlers that drive it.  localStorage is the browser's          *)
(* string-keyed store, db the remote document database; currentUserId and  *)
(* isGuestMode are the module-level session state.                         *)
(***************************************************************************)
EXTENDS Integers, Sequences, FiniteSets, TLC

VARIABLES
    currentUserId,   \* module variable: the active user id, or Null
    isGuestMode,     \* module variable: TRUE routes to localStorage, FALSE to db
    localStorage,    \* one field per LOCAL_KEYS entry
    db,              \* remote documents: path |-> data
    now,             \* the clock, in ticks since the epoch (UTC)
    tz,              \* the browser's offset from UTC, in ticks
    last,            \* the last completed call: its name, input and outcome
    calls,           \* the stats calls in flight, one per caller
    microtasks,      \* callers whose continuation is queued behind an await
    swipeQuiz        \* the SwipeQuiz component: its state, timers and onComplete calls

\* what runs beside the storage calls that complete in one step
pending == <<calls, microtasks, swipeQuiz>>

vars == <<currentUserId, isGuestMode, localStorage, db, now, tz, last, pending>>

----------------------------------------------------------------------------
\* Bounds of the model

\* total number of entity records held in localStorage
MaxLocalRecords == 2

\* number of documents in the remote database
MaxRemoteDocs == 2

\* the clock stops here
MaxTime == 5

\* ticks of the clock per calendar day
TicksPerDay == 2

\* caps of the stats counters the operations raise
MaxStudyMinutes == 45
MaxStreak == 2
MaxNotesCreated == 1

\* swipes and button presses in one run of the quiz
MaxSwipes == 3

----------------------------------------------------------------------------
\* Values

Null == "null"

GuestIds == {"g1", "g2"}
AuthIds == {"a1"}
UserIds == GuestIds \cup AuthIds

\* document ids, in the order the remote store lists them
IdSeq == <<"i1", "i2">>
Ids == {IdSeq[k] : k \in DOMAIN IdSeq}

\* payload of an entity (title, text, ...): enough to tell two versions apart
Payloads == {"x", "y"}

\* the entity collections that are saved as whole lists
ListCollections == {"notes", "summaries", "queue", "tasks"}
Collections == ListCollections \cup {"quizzes"}

LOCAL_KEYS ==
    [ USER_SESSION |-> "USER_SESSION", USERS_DB |-> "USERS_DB", STATS |-> "STATS",
      notes |-> "NOTES", summaries |-> "SUMMARIES", queue |-> "QUEUE",
      tasks |-> "TASKS", quizzes |-> "QUIZZES" ]

\* Note, Summary, QueueItem, RoutineTask, Quiz: the fields the storage layer reads
Entity(id, userId, data) == [id |-> id, userId |-> userId, data |-> data]
Entities(users, payloads) == {Entity(i, u, d) : i \in Ids, u \in users, d \in payloads}

\* UserPreferences: the fields the storage layer reads, and a name that edits change
Names == {"n1", "n2"}
Profile(id, guest, name) == [id |-> id, isGuest |-> guest, name |-> name]

SeqToSet(s) == {s[k] : k \in DOMAIN s}

\* lists of at most two records over a set
SmallLists(S) == {<<>>} \cup {<<a>> : a \in S} \cup {<<a, b>> : a \in S, b \in S}

----------------------------------------------------------------------------
\* localStorage tables

\* a table value standing for a stored text that is not a JSON array: JSON.parse
\* throws on it, or the array method called on its result does
NotJSON == <<[id |-> Null, userId |-> Null, data |-> "not json"]>>

\* getLocalDB(key) returns; FALSE: it throws
parses(ls, key) == ls[key] # NotJSON

\* an absent item reads as [], which is the value the table then has here
getLocalDB(key) == localStorage[key]

saveLocalDB(ls, key, data) == [ls EXCEPT ![key] = data]

getLocalUserItems(key, userId) ==
    SelectSeq(getLocalDB(key), LAMBDA item : item.userId = userId)

\* a save that appends to the table without dropping the user's old records
saveLocalUserItemsMerging(ls, key, userId, items) ==
    saveLocalDB(ls, key, ls[key] \o items)

saveLocalUserItems(ls, key, userId, items) ==
    LET others == SelectSeq(ls[key], LAMBDA i : i.userId # userId)
    IN  saveLocalDB(ls, key, others \o items)

\* number of entity records over all collection tables of a localStorage value
RECURSIVE SumLen(_, _)
SumLen(ls, cs) ==
    IF cs = {} THEN 0
    ELSE LET c == CHOOSE x \in cs : TRUE
         IN  Len(ls[LOCAL_KEYS[c]]) + SumLen(ls, cs \ {c})

LocalRecords(ls) == SumLen(ls, Collections)

----------------------------------------------------------------------------
\* Remote document store (the consumed contract: get, set, list, atomic batch)

ProfilePath(uid) == <<"users", uid>>
DocPath(uid, coll, id) == <<"users", uid, coll, id>>
StatsPath(uid) == DocPath(uid, "data", "stats")

exists(d, path) == path \in DOMAIN d

setDoc(d, path, data) ==
    [p \in DOMAIN d \cup {path} |-> IF p = path THEN data ELSE d[p]]

\* a write batch is the list of its set() calls; commit applies them in order
RECURSIVE commit(_, _)
commit(d, batch) ==
    IF batch = <<>> THEN d
    ELSE commit(setDoc(d, Head(batch)[1], Head(batch)[2]), Tail(batch))

\* the document ids in use, in the order getDocs lists them: the record ids, and
\* 'stats' of users/{uid}/data/stats
DocIdSeq == IdSeq \o <<"stats">>

\* getDocs on users/{uid}/{coll}: the documents of the collection, by document id
getDocs(d, uid, coll) ==
    LET present == SelectSeq(DocIdSeq, LAMBDA i : exists(d, DocPath(uid, coll, i)))
    IN  [k \in DOMAIN present |-> d[DocPath(uid, coll, present[k])]]

----------------------------------------------------------------------------
\* The record of the last completed call, read by the properties below

\* ok: the call resolved (FALSE: it was rejected); res: what it resolved to;
\* pre: what the call found before it acted
Call(op, coll, arg, ok, res, pre) ==
    [op |-> op, coll |-> coll, arg |-> arg, ok |-> ok, res |-> res, pre |-> pre]

\* a value that may be missing (null, undefined): <<>> or <<value>>
None == <<>>
Some(x) == <<x>>

----------------------------------------------------------------------------
\* Session Manager

\* users[user.id] = user, written back to the directory
upsertUser(ls, user) ==
    LET users == ls.USERS_DB
    IN  [ls EXCEPT !.USERS_DB = [u \in DOMAIN users \cup {user.id} |->
                                    IF u = user.id THEN user ELSE users[u]]]

\* a guest session that stores the pointer and leaves the directory alone
setSessionStorageWithoutDirectory(ls, user) ==
    IF user.isGuest
    THEN [ls EXCEPT !.USER_SESSION = user.id]
    ELSE [ls EXCEPT !.USER_SESSION = Null]

\* a setSession that leaves localStorage alone for a signed-in user
setSessionStorageKeepingPointer(ls, user) ==
    IF user.isGuest
    THEN upsertUser([ls EXCEPT !.USER_SESSION = user.id], user)
    ELSE ls

\* what setSession leaves in localStorage
setSessionStorage(ls, user) ==
    IF user.isGuest
    THEN upsertUser([ls EXCEPT !.USER_SESSION = user.id], user)
    ELSE [ls EXCEPT !.USER_SESSION = Null]

setSession(user) ==
    /\ currentUserId' = user.id
    /\ isGuestMode' = user.isGuest
    /\ localStorage' = setSessionStorage(localStorage, user)
    /\ last' = Call("setSession", Null, user, TRUE, Null, Null)
    /\ UNCHANGED <<pending, db, now, tz>>

getGuestSessionResult ==
    LET sessionId == localStorage.USER_SESSION
        users == localStorage.USERS_DB
    IN  IF sessionId # Null
        THEN IF sessionId \in DOMAIN users THEN Some(users[sessionId]) ELSE None
        ELSE None

getGuestSession ==
    /\ last' = Call("getGuestSession", Null, Null, TRUE, getGuestSessionResult, Null)
    /\ UNCHANGED <<pending, currentUserId, isGuestMode, localStorage, db, now, tz>>

----------------------------------------------------------------------------
\* Collection accessors

\* what loadCollection resolves to when the remote read, if any, succeeds
loadCollectionResult(collectionName) ==
    IF currentUserId = Null THEN <<>>
    ELSE IF isGuestMode
         THEN IF collectionName \in Collections
              THEN getLocalUserItems(LOCAL_KEYS[collectionName], currentUserId)
              ELSE <<>>
         ELSE getDocs(db, currentUserId, collectionName)

loadCollection(op, collectionName, ok) ==
    /\ IF /\ currentUserId # Null /\ isGuestMode
          /\ collectionName \in Collections
          /\ ~parses(localStorage, LOCAL_KEYS[collectionName])
       THEN ~ok
       ELSE ok \/ (currentUserId # Null /\ ~isGuestMode)
    /\ last' = Call(op, collectionName, Null, ok,
                    IF ok THEN loadCollectionResult(collectionName) ELSE Null, Null)
    /\ UNCHANGED <<pending, currentUserId, isGuestMode, localStorage, db, now, tz>>

\* the names loadCollection is called with: the five collections, the remote
\* subcollection of the stats document, and a name nothing is stored under
CollectionNames == Collections \cup {"data", "archive"}

\* a direct call of StorageService.loadCollection(collectionName)
loadCollectionCall ==
    \E collectionName \in CollectionNames, ok \in BOOLEAN :
        loadCollection("loadCollection", collectionName, ok)

getNotes == \E ok \in BOOLEAN : loadCollection("getNotes", "notes", ok)
getSummaries == \E ok \in BOOLEAN : loadCollection("getSummaries", "summaries", ok)
getQueue == \E ok \in BOOLEAN : loadCollection("getQueue", "queue", ok)
getTasks == \E ok \in BOOLEAN : loadCollection("getTasks", "tasks", ok)
getQuizzes == \E ok \in BOOLEAN : loadCollection("getQuizzes", "quizzes", ok)

\* the batch saveNotes, saveSummaries, saveQueue and saveTasks build: one set per item
saveBatch(uid, coll, items) ==
    [k \in DOMAIN items |-> <<DocPath(uid, coll, items[k].id), items[k]>>]

\* a remote save that also deletes the documents of the collection missing from items
saveRemoteItemsReplacing(d, uid, coll, items) ==
    LET kept == {p \in DOMAIN d :
                   ~(\E i \in Ids : p = DocPath(uid, coll, i)
                                     /\ \A k \in DOMAIN items : items[k].id # i)}
    IN  commit([p \in kept |-> d[p]], saveBatch(uid, coll, items))

\* the remote branch of the list saves, when its commit succeeds
saveRemoteItems(d, uid, coll, items) == commit(d, saveBatch(uid, coll, items))

\* a list save that resolves although its commit failed
saveListSwallowing(op, coll, items, ok) ==
    /\ IF currentUserId = Null
       THEN ok /\ UNCHANGED <<localStorage, db>>
       ELSE IF isGuestMode
            THEN /\ ok
                 /\ localStorage' = saveLocalUserItems(localStorage, LOCAL_KEYS[coll],
                                                       currentUserId, items)
                 /\ LocalRecords(localStorage') <= MaxLocalRecords
                 /\ UNCHANGED db
            ELSE /\ db' = IF ok THEN saveRemoteItems(db, currentUserId, coll, items) ELSE db
                 /\ Cardinality(DOMAIN db') <= MaxRemoteDocs
                 /\ UNCHANGED localStorage
    /\ last' = Call(op, coll, items, TRUE, Null, Len(loadCollectionResult(coll)))
    /\ UNCHANGED <<pending, currentUserId, isGuestMode, now, tz>>

\* the common body of saveNotes, saveSummaries, saveQueue and saveTasks
saveList(op, coll, items, ok) ==
    /\ IF currentUserId = Null
       THEN ok /\ UNCHANGED <<localStorage, db>>
       ELSE IF isGuestMode
            THEN IF parses(localStorage, LOCAL_KEYS[coll])
                 THEN /\ ok
                      /\ localStorage' = saveLocalUserItems(localStorage, LOCAL_KEYS[coll],
                                                            currentUserId, items)
                      /\ LocalRecords(localStorage') <= MaxLocalRecords
                      /\ UNCHANGED db
                 ELSE ~ok /\ UNCHANGED <<localStorage, db>>
            ELSE /\ db' = IF ok THEN saveRemoteItems(db, currentUserId, coll, items) ELSE db
                 /\ Cardinality(DOMAIN db') <= MaxRemoteDocs
                 /\ UNCHANGED localStorage
    /\ last' = Call(op, coll, items, ok, Null, Len(loadCollectionResult(coll)))
    /\ UNCHANGED <<pending, currentUserId, isGuestMode, now, tz>>

saveNotes(notes) == \E ok \in BOOLEAN : saveList("saveNotes", "notes", notes, ok)
saveSummaries(summaries) ==
    \E ok \in BOOLEAN : saveList("saveSummaries", "summaries", summaries, ok)
saveQueue(queue) == \E ok \in BOOLEAN : saveList("saveQueue", "queue", queue, ok)
saveTasks(tasks) == \E ok \in BOOLEAN : saveList("saveTasks", "tasks", tasks, ok)

\* quizzes[existingIndex] = quiz, or quizzes.push(quiz)
upsertQuiz(quizzes, quiz) ==
    IF \E k \in DOMAIN quizzes : quizzes[k].id = quiz.id
    THEN LET existingIndex == CHOOSE k \in DOMAIN quizzes :
                                 /\ quizzes[k].id = quiz.id
                                 /\ \A j \in 1..(k - 1) : quizzes[j].id # quiz.id
         IN  [quizzes EXCEPT ![existingIndex] = quiz]
    ELSE Append(quizzes, quiz)

saveQuiz(quiz) ==
    \E ok \in BOOLEAN :
        /\ IF currentUserId = Null
           THEN ok /\ UNCHANGED <<localStorage, db>>
           ELSE IF isGuestMode
                THEN IF parses(localStorage, LOCAL_KEYS.quizzes)
                     THEN /\ ok
                          /\ localStorage' =
                                saveLocalUserItems(localStorage, LOCAL_KEYS.quizzes,
                                   currentUserId,
                                   upsertQuiz(getLocalUserItems(LOCAL_KEYS.quizzes,
                                                                currentUserId), quiz))
                          /\ LocalRecords(localStorage') <= MaxLocalRecords
                          /\ UNCHANGED db
                     ELSE ~ok /\ UNCHANGED <<localStorage, db>>
                ELSE /\ db' = IF ok
                              THEN setDoc(db, DocPath(currentUserId, "quizzes", quiz.id), quiz)
                              ELSE db
                     /\ Cardinality(DOMAIN db') <= MaxRemoteDocs
                     /\ UNCHANGED localStorage
        /\ last' = Call("saveQuiz", "quizzes", quiz, ok, Null,
                        Len(loadCollectionResult("quizzes")))
        /\ UNCHANGED <<pending, currentUserId, isGuestMode, now, tz>>

----------------------------------------------------------------------------
\* Initial state: nothing stored, no session (the module's initial values)

EmptyLocalStorage ==
    [ USER_SESSION |-> Null, USERS_DB |-> <<>>, STATS |-> <<>>,
      NOTES |-> <<>>, SUMMARIES |-> <<>>, QUEUE |-> <<>>, TASKS |-> <<>>,
      QUIZZES |-> <<>> ]

\* offsets of the browser's time zone from UTC, in ticks
TimeZones == 0..(TicksPerDay - 1)

\* the callers that may have a stats call in flight at the same time
Callers == {"c1", "c2"}

\* the updater a call carries: none, or what it adds and the day it adds it to
NoUpdater == [kind |-> "none", key |-> 0, n |-> 0]

\* a caller with no call
Idle == [op |-> "none", upd |-> NoUpdater, pc |-> "idle", ref |-> Null,
         val |-> None, ok |-> TRUE]

\* no SwipeQuiz is mounted
NoQuiz == [questions |-> <<>>, currentIndex |-> 0, score |-> 0, attempted |-> <<>>,
           showResult |-> Null, timers |-> <<>>, completed |-> <<>>]

\* no call is in flight, no continuation is queued, no quiz is open
Quiet ==
    /\ calls = [c \in Callers |-> Idle]
    /\ microtasks = <<>>
    /\ swipeQuiz = NoQuiz

Init ==
    /\ currentUserId = Null
    /\ isGuestMode = TRUE
    /\ localStorage = EmptyLocalStorage
    /\ db = <<>>
    /\ now = 0
    /\ tz \in TimeZones
    /\ last = Call("init", Null, Null, TRUE, Null, Null)
    /\ Quiet

----------------------------------------------------------------------------
\* Guest sessions working on the collections

GuestProfiles == {Profile(u, TRUE, "n1") : u \in GuestIds}

\* the lists handed to the list saves, and the quizzes handed to saveQuiz
GuestLists == SmallLists(Entities(GuestIds, {"x"}))
GuestQuizzes == Entities(GuestIds, Payloads)

InitGuest == Init /\ tz = 0

NextGuest ==
    \/ \E user \in GuestProfiles : setSession(user)
    \/ \E items \in GuestLists : saveNotes(items)
    \/ \E items \in GuestLists : saveSummaries(items)
    \/ \E items \in GuestLists : saveQueue(items)
    \/ \E items \in GuestLists : saveTasks(items)
    \/ \E quiz \in GuestQuizzes : saveQuiz(quiz)
    \/ getNotes
    \/ getSummaries
    \/ getQueue
    \/ getTasks
    \/ getQuizzes

SpecGuest == InitGuest /\ [][NextGuest]_vars

----------------------------------------------------------------------------
\* Properties of the guest-mode collections

ListSaveOps == {"saveNotes", "saveSummaries", "saveQueue", "saveTasks"}

AllOwnedBy(items, userId) == \A k \in DOMAIN items : items[k].userId = userId

GuestSaved(ops) ==
    /\ last.op \in ops
    /\ last.ok
    /\ currentUserId # Null
    /\ isGuestMode

\* C1: in guest mode, after saveNotes/saveSummaries/saveQueue/saveTasks of a list
\* whose records all carry the current user's id, the matching get returns exactly
\* that list: the user's earlier records that are not in the list are gone.
C1_GuestSaveReplaces ==
    (GuestSaved(ListSaveOps) /\ AllOwnedBy(last.arg, currentUserId))
        => loadCollectionResult(last.coll) = last.arg

\* C1 witness: two notes were stored, saveNotes([]) ran, getNotes() is now empty
C1_Witness ==
    /\ GuestSaved({"saveNotes"})
    /\ last.pre = 2
    /\ last.arg = <<>>
    /\ loadCollectionResult("notes") = <<>>

\* what a get of collection c returns under a guest session of user
GuestView(c, user) == getLocalUserItems(LOCAL_KEYS[c], user)

\* C9: a guest-mode save under one user never changes what another user's gets
\* return, whatever userId the saved records carry, and a get returns only records
\* of the current user.
C9_PerUserIsolation ==
    [][ (GuestSaved(ListSaveOps \cup {"saveQuiz"}))' =>
           /\ \A other \in GuestIds \ {currentUserId} : \A c \in Collections :
                 GuestView(c, other)' = GuestView(c, other)
           /\ \A c \in Collections :
                 AllOwnedBy(loadCollectionResult(c), currentUserId)' ]_vars

----------------------------------------------------------------------------
\* An authenticated session working on the collections

AuthProfiles == {Profile(u, FALSE, "n1") : u \in AuthIds}

AuthLists == SmallLists(Entities(AuthIds, Payloads))
AuthQuizzes == Entities(AuthIds, Payloads)

InitAuth == Init /\ tz = 0

NextAuth ==
    \/ \E user \in AuthProfiles : setSession(user)
    \/ \E items \in AuthLists : saveNotes(items)
    \/ \E items \in AuthLists : saveSummaries(items)
    \/ \E items \in AuthLists : saveQueue(items)
    \/ \E items \in AuthLists : saveTasks(items)
    \/ \E quiz \in AuthQuizzes : saveQuiz(quiz)
    \/ getNotes
    \/ getSummaries
    \/ getQueue
    \/ getTasks
    \/ getQuizzes

SpecAuth == InitAuth /\ [][NextAuth]_vars

AuthSaved(ops) ==
    /\ last.op \in ops
    /\ last.ok
    /\ currentUserId # Null
    /\ ~isGuestMode

\* the paths a list save of items writes
SavedPaths(uid, coll, items) == {DocPath(uid, coll, items[k].id) : k \in DOMAIN items}

\* C2: in authenticated mode a list save writes one document per id of the list,
\* leaves every other document as it was, and no step ever removes a document:
\* after saveSummaries([a]) and saveSummaries([b]) the collection holds a and b.
C2_RemoteSaveAdditive ==
    [][ /\ DOMAIN db \subseteq DOMAIN db'
        /\ AuthSaved(ListSaveOps)' =>
             LET items == last'.arg
                 written == SavedPaths(currentUserId, last'.coll, items)
             IN  /\ DOMAIN db' = DOMAIN db \cup written
                 /\ \A p \in written :
                       \E k \in DOMAIN items :
                          /\ p = DocPath(currentUserId, last'.coll, items[k].id)
                          /\ db'[p] = items[k]
                 /\ \A p \in DOMAIN db \ written : db'[p] = db[p] ]_vars

\* C2 witness: summaries a (i1) and then b (i2) were saved one at a time and both
\* are returned
C2_Witness ==
    /\ AuthSaved({"saveSummaries"})
    /\ last.pre = 1
    /\ Len(last.arg) = 1
    /\ last.arg[1].id = "i2"
    /\ Len(loadCollectionResult("summaries")) = 2
    /\ loadCollectionResult("summaries")[1].id = "i1"
    /\ loadCollectionResult("summaries")[2] = last.arg[1]

----------------------------------------------------------------------------
\* Dates

\* a date string taken in UTC instead of the browser's time zone
toDateStringUTC(t) == t \div TicksPerDay

\* new Date(t).toDateString(): the calendar date in the browser's time zone
toDateString(t) == (t + tz) \div TicksPerDay

\* new Date(t).toISOString().split('T')[0]: the calendar date in UTC
toISODate(t) == t \div TicksPerDay

\* yesterday.setDate(yesterday.getDate() - 1); yesterday.toDateString()
yesterdayDateString(t) == toDateString(t) - 1

----------------------------------------------------------------------------
\* Stats Aggregator

StatsId(userId) == <<"stats_", userId>>

createEmptyStats(userId) ==
    [ id |-> StatsId(userId),
      userId |-> userId,
      totalTimeStudiedMinutes |-> 0,
      notesCreated |-> 0,
      quizzesTaken |-> 0,
      loginStreak |-> 0,
      lastLoginDate |-> now,
      dailyActivity |-> <<>>,
      highScore |-> 0 ]

\* a findIndex that compares the record's id with the user id, and so finds none
findStatsIndexById(all, userId) ==
    IF \E k \in DOMAIN all : all[k].id = userId
    THEN CHOOSE k \in DOMAIN all :
            /\ all[k].id = userId
            /\ \A j \in 1..(k - 1) : all[j].id # userId
    ELSE 0

\* all.findIndex(s => s.userId === userId): 0 when there is none
findStatsIndex(all, userId) ==
    IF \E k \in DOMAIN all : all[k].userId = userId
    THEN CHOOSE k \in DOMAIN all :
            /\ all[k].userId = userId
            /\ \A j \in 1..(k - 1) : all[j].userId # userId
    ELSE 0

\* the result of a storage call: whether it resolved, to what, the stores it
\* leaves, and the number of writes it issued
Outcome(ok, res, ls, d, writes) ==
    [ok |-> ok, res |-> res, ls |-> ls, db |-> d, writes |-> writes]

\* a getStats that hands out a fresh record whenever it is called
getStatsForgetful(ls, d, ok) ==
    Outcome(TRUE,
            createEmptyStats(IF currentUserId = Null THEN "unknown" ELSE currentUserId),
            ls, d, 0)

\* a getStats that, as a guest, also copies the record it creates to the remote store
getStatsWritingThrough(ls, d, ok) ==
    IF currentUserId = Null THEN Outcome(TRUE, createEmptyStats("unknown"), ls, d, 0)
    ELSE IF isGuestMode
    THEN LET all == ls.STATS
             idx == findStatsIndex(all, currentUserId)
         IN  IF idx = 0
             THEN LET stats == createEmptyStats(currentUserId)
                  IN  Outcome(TRUE, stats,
                              saveLocalDB(ls, "STATS", Append(all, stats)),
                              setDoc(d, StatsPath(currentUserId), stats), 1)
             ELSE Outcome(TRUE, all[idx], ls, d, 0)
    ELSE IF ~ok THEN Outcome(FALSE, Null, ls, d, 0)
    ELSE IF exists(d, StatsPath(currentUserId))
         THEN Outcome(TRUE, d[StatsPath(currentUserId)], ls, d, 0)
         ELSE LET newStats == createEmptyStats(currentUserId)
              IN  Outcome(TRUE, newStats, ls,
                          setDoc(d, StatsPath(currentUserId), newStats), 1)

\* a getStats without the guard on the session: with no user it creates and
\* stores a record as it does for a user
getStatsWithoutGuard(ls, d, ok) ==
    IF isGuestMode
    THEN LET all == ls.STATS
             idx == findStatsIndex(all, currentUserId)
         IN  IF idx = 0
             THEN LET stats == createEmptyStats(currentUserId)
                  IN  Outcome(TRUE, stats,
                              saveLocalDB(ls, "STATS", Append(all, stats)), d, 1)
             ELSE Outcome(TRUE, all[idx], ls, d, 0)
    ELSE IF ~ok THEN Outcome(FALSE, Null, ls, d, 0)
    ELSE IF exists(d, StatsPath(currentUserId))
         THEN Outcome(TRUE, d[StatsPath(currentUserId)], ls, d, 0)
         ELSE LET newStats == createEmptyStats(currentUserId)
              IN  Outcome(TRUE, newStats, ls,
                          setDoc(d, StatsPath(currentUserId), newStats), 1)

\* getStats on stores ls and d; ok: the remote calls it makes succeed
getStatsOutcome(ls, d, ok) ==
    IF currentUserId = Null THEN Outcome(TRUE, createEmptyStats("unknown"), ls, d, 0)
    ELSE IF isGuestMode
    THEN IF ~parses(ls, "STATS") THEN Outcome(FALSE, Null, ls, d, 0) ELSE
         LET all == ls.STATS
             idx == findStatsIndex(all, currentUserId)
         IN  IF idx = 0
             THEN LET stats == createEmptyStats(currentUserId)
                  IN  Outcome(TRUE, stats,
                              saveLocalDB(ls, "STATS", Append(all, stats)), d, 1)
             ELSE Outcome(TRUE, all[idx], ls, d, 0)
    ELSE IF ~ok THEN Outcome(FALSE, Null, ls, d, 0)
    ELSE IF exists(d, StatsPath(currentUserId))
         THEN Outcome(TRUE, d[StatsPath(currentUserId)], ls, d, 0)
         ELSE LET newStats == createEmptyStats(currentUserId)
              IN  Outcome(TRUE, newStats, ls,
                          setDoc(d, StatsPath(currentUserId), newStats), 1)

\* updateStats(updater) on stores ls and d; okGet, okSet: its getStats and its
\* remote write succeed
updateStatsOutcome(ls, d, updater(_), okGet, okSet) ==
    IF currentUserId = Null THEN Outcome(TRUE, Null, ls, d, 0)
    ELSE LET got == getStatsOutcome(ls, d, okGet)
         IN  IF ~got.ok THEN got
             ELSE LET updated == updater(got.res)
                  IN  IF isGuestMode
                      THEN LET all == got.ls.STATS
                               idx == findStatsIndex(all, currentUserId)
                           IN  Outcome(TRUE, updated,
                                       saveLocalDB(got.ls, "STATS",
                                          IF idx > 0 THEN [all EXCEPT ![idx] = updated]
                                          ELSE Append(all, updated)),
                                       got.db, got.writes + 1)
                      ELSE IF okSet
                           THEN Outcome(TRUE, updated, got.ls,
                                        setDoc(got.db, StatsPath(currentUserId), updated),
                                        got.writes + 1)
                           ELSE Outcome(FALSE, Null, got.ls, got.db, got.writes + 1)

\* the stats record stored for a user under the current mode, if any
StoredStats(ls, d, userId) ==
    IF isGuestMode
    THEN IF findStatsIndex(ls.STATS, userId) = 0 THEN None
         ELSE Some(ls.STATS[findStatsIndex(ls.STATS, userId)])
    ELSE IF exists(d, StatsPath(userId)) THEN Some(d[StatsPath(userId)]) ELSE None

CurrentStats == StoredStats(localStorage, db, currentUserId)

\* which remote call of a handler fails, if any (a handler stops at its first
\* failed call)
Failures == {"none", "first", "second", "third"}

\* guest mode makes no remote call, so nothing can fail there
CanFail(fail) == fail = "none" \/ (currentUserId # Null /\ ~isGuestMode)

\* a stats call ends: the stores it leaves and the record of the call, which keeps
\* the stored record and the time it found
StatsCallEnds(op, arg, out, before) ==
    /\ localStorage' = out.ls
    /\ db' = out.db
    /\ last' = Call(op, Null, arg, out.ok, out.res,
                    [stats |-> CurrentStats, at |-> now, writes |-> out.writes,
                     before |-> before])
    /\ UNCHANGED <<pending, currentUserId, isGuestMode, now, tz>>

getStats ==
    \E fail \in {"none", "first"} :
        /\ CanFail(fail)
        /\ StatsCallEnds("getStats", Null,
                         getStatsOutcome(localStorage, db, fail = "none"), None)

\* App.tsx: updateStats(s => ({...s, notesCreated: (s.notesCreated || 0) + 1}))
noteCreated(s) == [s EXCEPT !.notesCreated = s.notesCreated + 1]

updateStats ==
    \E fail \in {"none", "first", "second"} :
        /\ CanFail(fail)
        /\ LET out == updateStatsOutcome(localStorage, db, noteCreated,
                                         fail # "first", fail = "none")
           IN  /\ (out.ok /\ currentUserId # Null) =>
                      out.res.notesCreated <= MaxNotesCreated
               /\ StatsCallEnds("updateStats", "noteCreated", out, None)

\* a streak that grows on every new day, consecutive or not
newStreakAlwaysGrows(stats) == stats.loginStreak + 1

\* let newStreak = stats.loginStreak; if (lastDate === yesterday) += 1 else = 1
newStreakOf(stats) ==
    IF toDateString(stats.lastLoginDate) = yesterdayDateString(now)
    THEN stats.loginStreak + 1
    ELSE 1

checkLoginStreakOutcome(ls, d, fail) ==
    IF currentUserId = Null THEN Outcome(TRUE, Null, ls, d, 0)
    ELSE LET got == getStatsOutcome(ls, d, fail # "first")
         IN  IF ~got.ok THEN got
             ELSE LET stats == got.res
                      lastDate == toDateString(stats.lastLoginDate)
                      today == toDateString(now)
                  IN  IF lastDate # today
                      THEN LET newStreak == newStreakOf(stats)
                               bump(s) == [s EXCEPT !.loginStreak = newStreak,
                                                    !.lastLoginDate = now]
                               upd == updateStatsOutcome(got.ls, got.db, bump,
                                                         fail # "second", fail = "none")
                           IN  Outcome(upd.ok, Null, upd.ls, upd.db,
                                       got.writes + upd.writes)
                      ELSE Outcome(TRUE, Null, got.ls, got.db, got.writes)

checkLoginStreak ==
    \E fail \in Failures :
        /\ CanFail(fail)
        /\ LET out == checkLoginStreakOutcome(localStorage, db, fail)
               after == StoredStats(out.ls, out.db, currentUserId)
           IN  /\ after # None => after[1].loginStreak <= MaxStreak
               /\ StatsCallEnds("checkLoginStreak", Null, out, None)

\* the updater of logStudyTime
addStudyTime(s, todayKey, minutes) ==
    LET currentDaily == IF todayKey \in DOMAIN s.dailyActivity
                        THEN s.dailyActivity[todayKey] ELSE 0
    IN  [s EXCEPT !.totalTimeStudiedMinutes = s.totalTimeStudiedMinutes + minutes,
                  !.dailyActivity =
                      [k \in DOMAIN s.dailyActivity \cup {todayKey} |->
                          IF k = todayKey THEN currentDaily + minutes
                          ELSE s.dailyActivity[k]]]

logStudyTimeOutcome(ls, d, minutes, fail) ==
    IF currentUserId = Null THEN Outcome(TRUE, Null, ls, d, 0)
    ELSE LET todayKey == toISODate(now)
             upd(s) == addStudyTime(s, todayKey, minutes)
             out == updateStatsOutcome(ls, d, upd, fail # "first", fail = "none")
         IN  Outcome(out.ok, Null, out.ls, out.db, out.writes)

logStudyTime(minutes) ==
    \E fail \in {"none", "first", "second"} :
        /\ CanFail(fail)
        /\ LET out == logStudyTimeOutcome(localStorage, db, minutes, fail)
               after == StoredStats(out.ls, out.db, currentUserId)
           IN  /\ after # None => after[1].totalTimeStudiedMinutes <= MaxStudyMinutes
               /\ StatsCallEnds("logStudyTime", minutes, out,
                     \* the awaited logStudyTime call right before this one, if any
                     IF last.op = "logStudyTime" /\ last.ok /\ currentUserId # Null
                     THEN Some([arg |-> last.arg, at |-> last.pre.at,
                                stats |-> last.pre.stats])
                     ELSE None)

\* time passes
Tick ==
    /\ now < MaxTime
    /\ now' = now + 1
    /\ UNCHANGED <<pending, currentUserId, isGuestMode, localStorage, db, tz, last>>

----------------------------------------------------------------------------
\* One session, guest or authenticated, working on its stats

StudyMinutes == {15, 30}

StatsProfiles == {Profile("g1", TRUE, "n1"), Profile("a1", FALSE, "n1")}

InitStats == Init

NextStats ==
    \/ \E user \in StatsProfiles : currentUserId = Null /\ setSession(user)
    \/ Tick
    \/ getStats
    \/ updateStats
    \/ checkLoginStreak
    \/ \E minutes \in StudyMinutes : logStudyTime(minutes)

SpecStats == InitStats /\ [][NextStats]_vars

----------------------------------------------------------------------------
\* Properties of the stats record

\* the user's calendar day at time t
CalendarDay(t) == (t + tz) \div TicksPerDay

\* the step is a call of op that resolved under an active session
Resolved(op) ==
    /\ last'.op = op
    /\ last'.ok
    /\ now' = now
    /\ currentUserId # Null

\* C3: with a session and no stats record, getStats() returns a record with every
\* counter at 0 and stores it; a later getStats() returns the stored record as it
\* is, lastLoginDate included, and stores nothing.  Guest and authenticated mode.
C3_LazyCreateIdempotent ==
    [][ Resolved("getStats") =>
          IF CurrentStats = None
          THEN /\ last'.res.userId = currentUserId
               /\ last'.res.totalTimeStudiedMinutes = 0
               /\ last'.res.notesCreated = 0
               /\ last'.res.quizzesTaken = 0
               /\ last'.res.loginStreak = 0
               /\ last'.res.highScore = 0
               /\ CurrentStats' = Some(last'.res)
               /\ last'.pre.writes = 1
          ELSE /\ last'.res = CurrentStats[1]
               /\ last'.pre.writes = 0
               /\ UNCHANGED <<localStorage, db>> ]_vars

\* C3 witness: a second getStats(), at a later time, returned the record the first
\* one created
C3_Witness ==
    /\ last.op = "getStats" /\ last.ok /\ currentUserId # Null
    /\ last.pre.stats # None
    /\ last.res = last.pre.stats[1]
    /\ last.res.totalTimeStudiedMinutes = 0
    /\ last.res.lastLoginDate < now
    /\ CurrentStats = Some(last.res)

\* the entry of day in a daily-activity histogram, 0 when absent
ActivityOf(stats, day) ==
    IF day \in DOMAIN stats.dailyActivity THEN stats.dailyActivity[day] ELSE 0

\* C4: two awaited logStudyTime calls on the same calendar day raise the lifetime
\* total by m1 + m2 and raise that day's entry of dailyActivity by m1 + m2 (30 then
\* 15 gives 45); no other entry and no other field changes.
C4_StudyTimeSameDay ==
    ( /\ last.op = "logStudyTime" /\ last.ok /\ currentUserId # Null
      /\ last.pre.before # None
      /\ last.pre.before[1].stats # None
      /\ CalendarDay(last.pre.before[1].at) = CalendarDay(last.pre.at) )
    => LET first == last.pre.before[1]
           s0 == first.stats[1]
           s2 == CurrentStats[1]
           minutes == first.arg + last.arg
           days == DOMAIN s0.dailyActivity \cup DOMAIN s2.dailyActivity
       IN  /\ s2.totalTimeStudiedMinutes = s0.totalTimeStudiedMinutes + minutes
           /\ \E today \in days :
                 /\ ActivityOf(s2, today) = ActivityOf(s0, today) + minutes
                 /\ \A d \in days \ {today} : ActivityOf(s2, d) = ActivityOf(s0, d)
           /\ [s2 EXCEPT !.totalTimeStudiedMinutes = 0, !.dailyActivity = <<>>]
                = [s0 EXCEPT !.totalTimeStudiedMinutes = 0, !.dailyActivity = <<>>]

\* C5: checkLoginStreak() with lastLoginDate on the day before today raises the
\* streak by one, with lastLoginDate two or more days back sets it to 1; either way
\* lastLoginDate becomes the current time and nothing else changes.
C5_StreakStep ==
    [][ (Resolved("checkLoginStreak") /\ CurrentStats # None) =>
          LET s == CurrentStats[1]
              lastDay == CalendarDay(s.lastLoginDate)
              today == CalendarDay(now)
          IN  /\ lastDay = today - 1 =>
                    CurrentStats' = Some([s EXCEPT !.loginStreak = s.loginStreak + 1,
                                                   !.lastLoginDate = now])
              /\ lastDay <= today - 2 =>
                    CurrentStats' = Some([s EXCEPT !.loginStreak = 1,
                                                   !.lastLoginDate = now]) ]_vars

\* C5 witness: a streak of 1 dated yesterday became a streak of 2 dated now
C5_Witness ==
    /\ last.op = "checkLoginStreak" /\ last.ok /\ currentUserId # Null
    /\ last.pre.stats # None
    /\ CalendarDay(last.pre.stats[1].lastLoginDate) = CalendarDay(last.pre.at) - 1
    /\ last.pre.stats[1].loginStreak = 1
    /\ CurrentStats # None
    /\ CurrentStats[1].loginStreak = 2
    /\ CurrentStats[1].lastLoginDate = last.pre.at

\* C6: every checkLoginStreak() leaves lastLoginDate on today's date, and a call
\* that finds lastLoginDate on today's date (so any second call of the day) writes
\* nothing and changes no field of the stats record.
C6_StreakOncePerDay ==
    [][ Resolved("checkLoginStreak") =>
          /\ CurrentStats' # None
          /\ CalendarDay(CurrentStats'[1].lastLoginDate) = CalendarDay(now)
          /\ (CurrentStats # None
              /\ CalendarDay(CurrentStats[1].lastLoginDate) = CalendarDay(now))
             => /\ UNCHANGED <<localStorage, db>>
                /\ last'.pre.writes = 0 ]_vars

\* C6 witness: the second checkLoginStreak() of a day, later the same day, found the
\* streak the first one had raised and left the record alone
C6_Witness ==
    /\ last.op = "checkLoginStreak" /\ last.ok /\ currentUserId # Null
    /\ last.pre.stats # None
    /\ last.pre.stats[1].loginStreak >= 1
    /\ last.pre.stats[1].lastLoginDate < last.pre.at
    /\ CalendarDay(last.pre.stats[1].lastLoginDate) = CalendarDay(last.pre.at)
    /\ last.pre.writes = 0
    /\ CurrentStats = last.pre.stats

----------------------------------------------------------------------------
\* Migration Routine

\* { ...item, userId: authId }
restamp(item, authId) == [item EXCEPT !.userId = authId]

\* the batch.set calls of one forEach loop of migrateData
migratePart(guestId, authId, coll) ==
    LET items == getLocalUserItems(LOCAL_KEYS[coll], guestId)
    IN  [k \in DOMAIN items |->
            <<DocPath(authId, coll, items[k].id), restamp(items[k], authId)>>]

\* the batch.set of the guest's stats record, if it has one
migrateStatsPart(guestId, authId) ==
    LET allStats == getLocalDB(LOCAL_KEYS.STATS)
        idx == findStatsIndex(allStats, guestId)
    IN  IF idx = 0 THEN <<>>
        ELSE << <<StatsPath(authId),
                  [allStats[idx] EXCEPT !.userId = authId, !.id = StatsId(authId)]>> >>

\* the whole batch of migrateData, in the order of its set calls
migrateBatch(guestId, authId) ==
    migratePart(guestId, authId, "notes") \o migratePart(guestId, authId, "summaries")
        \o migratePart(guestId, authId, "queue") \o migratePart(guestId, authId, "tasks")
        \o migratePart(guestId, authId, "quizzes") \o migrateStatsPart(guestId, authId)

\* a migration that commits each collection on its own: what landed before the
\* failing commit stays
migrateCommitPiecewise(d, guestId, authId, ok) ==
    IF ok THEN commit(d, migrateBatch(guestId, authId))
    ELSE commit(d, migratePart(guestId, authId, "notes"))

\* a migration that replaces the remote store by the batch
migrateCommitReplacing(d, guestId, authId, ok) ==
    IF ok THEN commit(<<>>, migrateBatch(guestId, authId)) ELSE d

\* await batch.commit(): all of the batch, or nothing
migrateCommit(d, guestId, authId, ok) ==
    IF ok THEN commit(d, migrateBatch(guestId, authId)) ELSE d

migrateData(guestId, authId) ==
    \E ok \in BOOLEAN :
        /\ db' = migrateCommit(db, guestId, authId, ok)
        /\ Cardinality(DOMAIN db') <= MaxRemoteDocs
        /\ last' = Call("migrateData", Null, [guestId |-> guestId, authId |-> authId],
                        ok, Null, Len(migrateBatch(guestId, authId)))
        /\ UNCHANGED <<pending, currentUserId, isGuestMode, localStorage, now, tz>>

----------------------------------------------------------------------------
\* A guest fills the local tables, and guests' data is migrated to an account

MigrateProfiles == {Profile("g1", TRUE, "n1")}
\* the records saved: two versions of one record of g1, a second record of g1,
\* and a record that carries another guest's id
MigrateEntities ==
    { Entity("i1", "g1", "x"), Entity("i1", "g1", "y"), Entity("i2", "g1", "x"),
      Entity("i1", "g2", "x") }
MigrateLists == SmallLists(MigrateEntities)
MigrateQuizzes == MigrateEntities

InitMigrate == Init /\ tz = 0

\* the guest's use of the application, which ends with the first migration
GuestFills ==
    \/ \E user \in MigrateProfiles : setSession(user)
    \/ \E items \in MigrateLists : saveNotes(items)
    \/ \E items \in MigrateLists : saveSummaries(items)
    \/ \E items \in MigrateLists : saveQueue(items)
    \/ \E items \in MigrateLists : saveTasks(items)
    \/ \E quiz \in MigrateQuizzes : saveQuiz(quiz)
    \/ getStats

NextMigrate ==
    \/ db = <<>> /\ GuestFills
    \/ \E guestId \in GuestIds, authId \in AuthIds : migrateData(guestId, authId)

SpecMigrate == InitMigrate /\ [][NextMigrate]_vars

\* the step is a migrateData call (no other step leaves this record of the call)
Migrated == last'.op = "migrateData"

\* the local stats record of a user, if any
LocalStatsOf(userId) ==
    LET all == localStorage.STATS
    IN  IF \E k \in DOMAIN all : all[k].userId = userId
        THEN Some(all[CHOOSE k \in DOMAIN all :
                        /\ all[k].userId = userId
                        /\ \A j \in 1..(k - 1) : all[j].userId # userId])
        ELSE None

\* the remote paths a migration of guestId to authId writes
MigratedPaths(guestId, authId) ==
    UNION {{DocPath(authId, c, r.id) : r \in SeqToSet(GuestView(c, guestId))} :
              c \in Collections}
        \cup (IF LocalStatsOf(guestId) = None THEN {} ELSE {StatsPath(authId)})

\* the stats document a migration writes for a guest's stats record
MigratedStats(stats, authId) ==
    [stats EXCEPT !.userId = authId, !.id = <<"stats_", authId>>]

\* every path the step changed or created is one the migration writes
OnlyMigratedWritten(guestId, authId) ==
    \A p \in DOMAIN db' :
        (p \notin DOMAIN db \/ db'[p] # db[p]) => p \in MigratedPaths(guestId, authId)

\* C7 as stated: a migrateData whose commit succeeds leaves, for every local record
\* of the guest in the five collections, a remote document under authId at the
\* record's id that equals the record with userId replaced by authId; the guest's
\* stats record, if any, lands at data/stats with userId = authId and id =
\* stats_authId; nothing of another local user is written.
C7_MigrateCopiesEveryRecord ==
    [][ (Migrated /\ last'.ok) =>
          LET g == last'.arg.guestId
              a == last'.arg.authId
          IN  /\ \A c \in Collections : \A r \in SeqToSet(GuestView(c, g)) :
                    /\ exists(db', DocPath(a, c, r.id))
                    /\ db'[DocPath(a, c, r.id)] = [r EXCEPT !.userId = a]
              /\ LocalStatsOf(g) # None =>
                    /\ exists(db', StatsPath(a))
                    /\ db'[StatsPath(a)] = MigratedStats(LocalStatsOf(g)[1], a)
              /\ OnlyMigratedWritten(g, a) ]_vars

\* C8: a migrateData whose commit fails is rejected and leaves the remote store as
\* it was, so nothing of the guest's five collections or stats has landed; one
\* whose commit succeeds has written every path of the batch.  No step writes a
\* part of the batch only.
C8_MigrateAllOrNothing ==
    [][ Migrated =>
          IF last'.ok
          THEN MigratedPaths(last'.arg.guestId, last'.arg.authId) \subseteq DOMAIN db'
          ELSE db' = db ]_vars

\* C8 witness: the commit of a batch of two writes failed, and the remote store
\* holds nothing
C8_Witness ==
    /\ last.op = "migrateData" /\ ~last.ok
    /\ last.pre >= 2
    /\ MigratedPaths(last.arg.guestId, last.arg.authId) # {}
    /\ db = <<>>

\* C20: a migrateData call, whether its commit succeeds or fails, leaves the
\* whole local storage (the guest's five collections, stats, directory entry and
\* session pointer) and the session state as they were, and leaves as it was
\* every remote document at a path the migration does not write.
C20_MigrateFrame ==
    [][ Migrated =>
          /\ localStorage' = localStorage
          /\ currentUserId' = currentUserId
          /\ isGuestMode' = isGuestMode
          /\ \A p \in DOMAIN db :
                p \notin MigratedPaths(last'.arg.guestId, last'.arg.authId) =>
                    (p \in DOMAIN db' /\ db'[p] = db[p]) ]_vars

\* C20 witness: g1's note i2 has been migrated to a1, whose note i1 of an earlier
\* migration is not among g1's records and is still there; the local tables
\* still hold the guest's note
C20_Witness ==
    /\ last.op = "migrateData" /\ last.ok
    /\ last.arg.guestId = "g1" /\ last.arg.authId = "a1"
    /\ MigratedPaths("g1", "a1") = {DocPath("a1", "notes", "i2")}
    /\ exists(db, DocPath("a1", "notes", "i2"))
    /\ exists(db, DocPath("a1", "notes", "i1"))
    /\ Len(GuestView("notes", "g1")) = 1

-----------------------------------------------------------------------------
\* User Profile

\* a getUserProfile that hands out a default profile where it has found none
getUserProfileResultDefaulting(d, userId, ok) ==
    IF ok /\ exists(d, ProfilePath(userId)) THEN Some(d[ProfilePath(userId)])
    ELSE Some(Profile(userId, FALSE, "n1"))

\* getUserProfile: the stored profile, or null when there is none or the read fails
getUserProfileResult(d, userId, ok) ==
    IF ok /\ exists(d, ProfilePath(userId)) THEN Some(d[ProfilePath(userId)]) ELSE None

\* saveUserProfile: the stores it leaves, and whether it resolved
saveUserProfileOutcome(ls, d, user, ok) ==
    IF user.isGuest
    THEN [ok |-> TRUE, ls |-> upsertUser(ls, user), db |-> d]
    ELSE IF ok
         THEN [ok |-> TRUE, ls |-> ls, db |-> setDoc(d, ProfilePath(user.id), user)]
         ELSE [ok |-> FALSE, ls |-> ls, db |-> d]

saveUserProfile(user) ==
    \E ok \in BOOLEAN :
        /\ ok \/ ~user.isGuest
        /\ LET out == saveUserProfileOutcome(localStorage, db, user, ok)
           IN  /\ localStorage' = out.ls
               /\ db' = out.db
               /\ Cardinality(DOMAIN db') <= MaxRemoteDocs
               /\ last' = Call("saveUserProfile", Null, user, out.ok, Null, Null)
        /\ UNCHANGED <<pending, currentUserId, isGuestMode, now, tz>>

-----------------------------------------------------------------------------
\* The App's handlers around the session (App.tsx)

\* the guest profile the step before set the session to, if it did
SessionJustSet ==
    CASE last.op = "setSession" -> Some(last.arg)
      [] last.op = "handleGuestAccess" -> last.res
      [] OTHER -> None

\* a page reload: the module is evaluated anew, localStorage and the remote store stay
Reload ==
    /\ currentUserId' = Null
    /\ isGuestMode' = TRUE
    /\ last' = Call("reload", Null, Null, TRUE, Null, SessionJustSet)
    /\ UNCHANGED <<pending, localStorage, db, now, tz>>

\* an auth callback that carries the stored guest's records over on sign-in
onAuthStateChangedMigrating(firebaseUser) ==
    LET before == IF last.op = "reload" THEN last.pre ELSE None
    IN  IF firebaseUser # Null
        THEN \E okGet \in BOOLEAN, okSet \in BOOLEAN, name \in Names :
               LET found == getUserProfileResult(db, firebaseUser, okGet)
                   profile == IF found # None THEN found[1]
                              ELSE Profile(firebaseUser, FALSE, name)
                   saved == IF found # None
                            THEN [ok |-> TRUE, ls |-> localStorage, db |-> db]
                            ELSE saveUserProfileOutcome(localStorage, db, profile, okSet)
                   guestId == localStorage.USER_SESSION
               IN  /\ found # None => (okSet /\ name = profile.name)
                   /\ db' = IF saved.ok /\ guestId # Null
                            THEN migrateCommit(saved.db, guestId, profile.id, TRUE)
                            ELSE saved.db
                   /\ Cardinality(DOMAIN db') <= MaxRemoteDocs
                   /\ IF saved.ok
                      THEN /\ currentUserId' = profile.id
                           /\ isGuestMode' = profile.isGuest
                           /\ localStorage' = setSessionStorage(saved.ls, profile)
                      ELSE UNCHANGED <<currentUserId, isGuestMode, localStorage>>
                   /\ last' = Call("onAuthStateChanged", Null, firebaseUser, saved.ok,
                                   IF saved.ok THEN Some(profile) ELSE None, before)
                   /\ UNCHANGED <<pending, now, tz>>
        ELSE LET guestUser == getGuestSessionResult
             IN  /\ IF guestUser # None
                    THEN /\ currentUserId' = guestUser[1].id
                         /\ isGuestMode' = guestUser[1].isGuest
                         /\ localStorage' = setSessionStorage(localStorage, guestUser[1])
                    ELSE UNCHANGED <<currentUserId, isGuestMode, localStorage>>
                 /\ last' = Call("onAuthStateChanged", Null, firebaseUser, TRUE,
                                 guestUser, before)
                 /\ UNCHANGED <<pending, db, now, tz>>

\* the callback of onAuthStateChanged; firebaseUser is the uid of the signed-in
\* user, or Null.  loadUserData() is started and not awaited: its calls are
\* steps of their own.
onAuthStateChanged(firebaseUser) ==
    LET before == IF last.op = "reload" THEN last.pre ELSE None
    IN  IF firebaseUser # Null
        THEN \E okGet \in BOOLEAN, okSet \in BOOLEAN, name \in Names :
               LET found == getUserProfileResult(db, firebaseUser, okGet)
                   profile == IF found # None THEN found[1]
                              ELSE Profile(firebaseUser, FALSE, name)
                   saved == IF found # None
                            THEN [ok |-> TRUE, ls |-> localStorage, db |-> db]
                            ELSE saveUserProfileOutcome(localStorage, db, profile, okSet)
               IN  /\ found # None => (okSet /\ name = profile.name)
                   /\ db' = saved.db
                   /\ Cardinality(DOMAIN db') <= MaxRemoteDocs
                   /\ IF saved.ok
                      THEN /\ currentUserId' = profile.id
                           /\ isGuestMode' = profile.isGuest
                           /\ localStorage' = setSessionStorage(saved.ls, profile)
                      ELSE UNCHANGED <<currentUserId, isGuestMode, localStorage>>
                   /\ last' = Call("onAuthStateChanged", Null, firebaseUser, saved.ok,
                                   IF saved.ok THEN Some(profile) ELSE None, before)
                   /\ UNCHANGED <<pending, now, tz>>
        ELSE LET guestUser == getGuestSessionResult
             IN  /\ IF guestUser # None
                    THEN /\ currentUserId' = guestUser[1].id
                         /\ isGuestMode' = guestUser[1].isGuest
                         /\ localStorage' = setSessionStorage(localStorage, guestUser[1])
                    ELSE UNCHANGED <<currentUserId, isGuestMode, localStorage>>
                 /\ last' = Call("onAuthStateChanged", Null, firebaseUser, TRUE,
                                 guestUser, before)
                 /\ UNCHANGED <<pending, db, now, tz>>

\* createGuestUser: the id holds the time and nine random characters, so it is
\* one no stored guest has
createGuestUser(id, name) == Profile(id, TRUE, name)

handleGuestAccess ==
    \E id \in GuestIds \ DOMAIN localStorage.USERS_DB, name \in Names :
        LET guestUser == createGuestUser(id, name)
            saved == saveUserProfileOutcome(localStorage, db, guestUser, TRUE)
        IN  /\ currentUserId' = guestUser.id
            /\ isGuestMode' = guestUser.isGuest
            /\ localStorage' = setSessionStorage(saved.ls, guestUser)
            /\ last' = Call("handleGuestAccess", Null, Null, TRUE, Some(guestUser), Null)
            /\ UNCHANGED <<pending, db, now, tz>>

\* a logout that also forgets the session of the storage service
handleLogoutClearing ==
    /\ localStorage' = IF currentUserId # Null /\ isGuestMode
                       THEN [localStorage EXCEPT !.USER_SESSION = Null]
                       ELSE localStorage
    /\ currentUserId' = Null
    /\ last' = Call("handleLogout", Null, Null, TRUE, Null, Null)
    /\ UNCHANGED <<pending, isGuestMode, db, now, tz>>

\* the App's user is a guest only while a guest session is set; signOut(auth) of
\* the other branch changes nothing here, the auth callback follows it
handleLogout ==
    /\ localStorage' = IF currentUserId # Null /\ isGuestMode
                       THEN [localStorage EXCEPT !.USER_SESSION = Null]
                       ELSE localStorage
    /\ last' = Call("handleLogout", Null, Null, TRUE, Null, Null)
    /\ UNCHANGED <<pending, currentUserId, isGuestMode, db, now, tz>>

-----------------------------------------------------------------------------
\* Sessions across page loads

SessionProfiles ==
    {Profile(u, TRUE, name) : u \in GuestIds, name \in Names} \cup AuthProfiles

\* what a page load may find in localStorage: nothing, or a session pointer
\* whose directory entry is gone
StoredAtLoad ==
    {EmptyLocalStorage, [EmptyLocalStorage EXCEPT !.USER_SESSION = "g2"]}

InitSession ==
    /\ currentUserId = Null
    /\ isGuestMode = TRUE
    /\ localStorage \in StoredAtLoad
    /\ db = <<>>
    /\ now = 0
    /\ tz = 0
    /\ last = Call("init", Null, Null, TRUE, Null, Null)
    /\ Quiet

NextSession ==
    \/ \E user \in SessionProfiles : setSession(user)
    \/ getGuestSession
    \/ Reload
    \/ \E firebaseUser \in AuthIds \cup {Null} : onAuthStateChanged(firebaseUser)
    \/ handleGuestAccess
    \/ handleLogout
    \/ \E user \in SessionProfiles : saveUserProfile(user)
    \/ checkLoginStreak
    \/ getNotes
    \/ getSummaries
    \/ getStats

SpecSession == InitSession /\ [][NextSession]_vars

\* C10: right after setSession(u) for a guest profile u, getGuestSession() gives
\* u; a reload right after that resets the session in memory and getGuestSession()
\* still gives u; the auth callback with no signed-in user right after that
\* reload gets u from getGuestSession() and sets the session to u, as a guest;
\* and getGuestSession() gives null when no pointer is stored or the pointer has
\* no entry in the directory.
C10_GuestSessionRoundTrip ==
    /\ (last.op = "setSession" /\ last.arg.isGuest) =>
          getGuestSessionResult = Some(last.arg)
    /\ (last.op = "reload" /\ last.pre # None /\ last.pre[1].isGuest) =>
          /\ currentUserId = Null
          /\ getGuestSessionResult = last.pre
    /\ (last.op = "onAuthStateChanged" /\ last.arg = Null
            /\ last.pre # None /\ last.pre[1].isGuest) =>
          /\ last.res = last.pre
          /\ currentUserId = last.pre[1].id
          /\ isGuestMode
          /\ getGuestSessionResult = last.pre
    /\ (\/ localStorage.USER_SESSION = Null
        \/ localStorage.USER_SESSION \notin DOMAIN localStorage.USERS_DB) =>
          getGuestSessionResult = None
    /\ last.op = "getGuestSession" => last.res = getGuestSessionResult

\* C10 witness: setSession for guest g1 named n2, a reload, then the auth callback
\* with no signed-in user, which restored the session of g1
C10_Witness ==
    /\ last.op = "onAuthStateChanged" /\ last.arg = Null
    /\ last.pre = Some(Profile("g1", TRUE, "n2"))
    /\ last.res = Some(Profile("g1", TRUE, "n2"))
    /\ currentUserId = "g1" /\ isGuestMode

-----------------------------------------------------------------------------
\* Operations reached through every kind of session

\* a direct call of StorageService.getUserProfile(userId); the record of the call
\* keeps whether the fetch succeeded
getUserProfile(userId) ==
    \E ok \in BOOLEAN :
        /\ last' = Call("getUserProfile", Null, userId, TRUE,
                        getUserProfileResult(db, userId, ok), ok)
        /\ UNCHANGED <<pending, currentUserId, isGuestMode, localStorage, db, now, tz>>

\* one record per save, carrying the id of the guest or of the signed-in user
ServiceEntities == {Entity("i1", u, "x") : u \in {"g1", "a1"}}
ServiceLists == {<<>>} \cup {<<e>> : e \in ServiceEntities}

-----------------------------------------------------------------------------
\* loadCollection called by name, with no session, as a guest and signed in

InitDispatch == Init /\ tz = 0

NextDispatch ==
    \/ \E user \in StatsProfiles : setSession(user)
    \/ Reload
    \/ loadCollectionCall
    \/ \E items \in ServiceLists : saveNotes(items)
    \/ \E quiz \in ServiceEntities : saveQuiz(quiz)
    \/ getStats

SpecDispatch == InitDispatch /\ [][NextDispatch]_vars

\* C11: loadCollection(name) resolves to an empty list, and is not rejected,
\* whenever no user is active or name is none of notes, summaries, queue, tasks,
\* quizzes; in guest mode and in authenticated mode alike.
C11_LoadCollectionFailsSoft ==
    [][ (last'.op = "loadCollection"
            /\ (currentUserId = Null \/ last'.coll \notin Collections))
        => (last'.ok /\ last'.res = <<>>) ]_vars

-----------------------------------------------------------------------------
\* Profiles and sessions next to stored guest data

ServiceProfiles == GuestProfiles \cup AuthProfiles

InitProfile == Init /\ tz = 0

NextProfile ==
    \/ \E user \in ServiceProfiles : setSession(user)
    \/ \E user \in ServiceProfiles : saveUserProfile(user)
    \/ \E userId \in UserIds : getUserProfile(userId)
    \/ getGuestSession
    \/ handleLogout
    \/ \E items \in ServiceLists : saveNotes(items)
    \/ getStats

SpecProfile == InitProfile /\ [][NextProfile]_vars

\* C12: getUserProfile(userId) always resolves: to the stored profile when the
\* fetch succeeds and the document exists, to null when the document is absent,
\* to null when the fetch fails; it changes neither store nor the session.
C12_GetUserProfileBestEffort ==
    [][ last'.op = "getUserProfile" =>
          /\ last'.ok
          /\ last'.res = IF last'.pre /\ exists(db, ProfilePath(last'.arg))
                         THEN Some(db[ProfilePath(last'.arg)])
                         ELSE None
          /\ UNCHANGED <<db, localStorage, currentUserId, isGuestMode>> ]_vars

\* C12 witness: the profile of a1 is stored, the fetch failed, the call resolved
\* to null
C12_Witness ==
    /\ last.op = "getUserProfile" /\ last.arg = "a1"
    /\ exists(db, ProfilePath("a1"))
    /\ ~last.pre
    /\ last.ok /\ last.res = None

\* C19: setSession(u) for a signed-in u removes the guest-session pointer, so
\* getGuestSession() gives null afterwards, and leaves the user directory, the
\* local collections and the local stats table (and the remote store) as they were.
C19_SignedInSessionClearsPointer ==
    [][ (last'.op = "setSession" /\ ~last'.arg.isGuest) =>
          /\ localStorage' = [localStorage EXCEPT !.USER_SESSION = Null]
          /\ getGuestSessionResult' = None
          /\ db' = db ]_vars

\* C19 witness: setSession for a1 after the guest g1 had stored a profile, a note
\* and a stats record, all of which are still there, and the pointer is gone
C19_Witness ==
    /\ last.op = "setSession" /\ last.arg = Profile("a1", FALSE, "n1")
    /\ currentUserId = "a1" /\ ~isGuestMode
    /\ localStorage.USER_SESSION = Null
    /\ "g1" \in DOMAIN localStorage.USERS_DB
    /\ localStorage.NOTES = <<Entity("i1", "g1", "x")>>
    /\ findStatsIndex(localStorage.STATS, "g1") > 0
    /\ getGuestSessionResult = None

-----------------------------------------------------------------------------
\* saveQuiz

\* the quiz of the last call saved once more on the stores as they are: the
\* stores that leaves
savedAgain ==
  LET quiz == last.arg IN
    IF isGuestMode
    THEN [ls |-> saveLocalUserItems(localStorage, LOCAL_KEYS.quizzes, currentUserId,
                    upsertQuiz(getLocalUserItems(LOCAL_KEYS.quizzes, currentUserId), quiz)),
          db |-> db]
    ELSE [ls |-> localStorage,
          db |-> setDoc(db, DocPath(currentUserId, "quizzes", quiz.id), quiz)]

\* C13: after a saveQuiz(q) that resolved, getQuizzes() holds q, and holds exactly
\* one quiz with id q.id; every other quiz it held before is still there as it
\* was and nothing else is; saving q once more changes nothing.
C13_SaveQuizUpserts ==
    [][ (last'.op = "saveQuiz" /\ last'.ok /\ currentUserId # Null) =>
          LET q == last'.arg
              before == loadCollectionResult("quizzes")
              after == loadCollectionResult("quizzes")'
          IN  /\ Cardinality({k \in DOMAIN after : after[k].id = q.id}) = 1
              /\ q \in SeqToSet(after)
              /\ \A r \in SeqToSet(before) : r.id # q.id => r \in SeqToSet(after)
              /\ SeqToSet(after) \subseteq SeqToSet(before) \cup {q}
              /\ savedAgain' = [ls |-> localStorage', db |-> db'] ]_vars

-----------------------------------------------------------------------------
\* The operations called with no session, over stores that sessions have filled

NoSession == currentUserId = Null

InitNoSession == Init /\ tz = 0

NextNoSession ==
    \/ \E user \in StatsProfiles : setSession(user)
    \/ ~NoSession /\ \E items \in ServiceLists : saveNotes(items)
    \/ ~NoSession /\ getStats
    \/ Reload
    \/ NoSession /\ \E items \in ServiceLists : saveNotes(items)
    \/ NoSession /\ \E items \in ServiceLists : saveSummaries(items)
    \/ NoSession /\ \E items \in ServiceLists : saveQueue(items)
    \/ NoSession /\ \E items \in ServiceLists : saveTasks(items)
    \/ NoSession /\ \E quiz \in ServiceEntities : saveQuiz(quiz)
    \/ NoSession /\ updateStats
    \/ NoSession /\ checkLoginStreak
    \/ NoSession /\ \E minutes \in StudyMinutes : logStudyTime(minutes)
    \/ NoSession /\ getNotes
    \/ NoSession /\ getSummaries
    \/ NoSession /\ getQueue
    \/ NoSession /\ getTasks
    \/ NoSession /\ getQuizzes
    \/ NoSession /\ getStats

SpecNoSession == InitNoSession /\ [][NextNoSession]_vars

SaveOps == ListSaveOps \cup {"saveQuiz"}
GetOps == {"getNotes", "getSummaries", "getQueue", "getTasks", "getQuizzes"}
StatsOps == {"getStats", "updateStats", "checkLoginStreak", "logStudyTime"}

\* C14: with no session, the saves, saveQuiz, updateStats, checkLoginStreak and
\* logStudyTime leave localStorage and the remote store as they are, every get
\* resolves to an empty list, getStats() resolves to a record with every counter
\* at 0 and stores nothing; none of the calls is rejected.
C14_NoSessionNoOp ==
    [][ (NoSession /\ last'.op \in SaveOps \cup GetOps \cup StatsOps) =>
          /\ last'.ok
          /\ UNCHANGED <<localStorage, db, currentUserId, isGuestMode>>
          /\ last'.op \in GetOps => last'.res = <<>>
          /\ last'.op = "getStats" =>
                /\ last'.res.totalTimeStudiedMinutes = 0
                /\ last'.res.notesCreated = 0
                /\ last'.res.quizzesTaken = 0
                /\ last'.res.loginStreak = 0
                /\ last'.res.highScore = 0
                /\ last'.res.dailyActivity = <<>> ]_vars

\* C14 witness: with a guest's note and a signed-in user's stats stored and the
\* session gone after a reload, saveNotes of a list of one note changed nothing
C14_Witness ==
    /\ NoSession
    /\ last.op = "saveNotes" /\ last.ok /\ Len(last.arg) = 1
    /\ localStorage.NOTES = <<Entity("i1", "g1", "x")>>
    /\ exists(db, StatsPath("a1"))

-----------------------------------------------------------------------------
\* Several guests, one after the other, working on their stats

InitStatsUsers == Init /\ tz = 0

NextStatsUsers ==
    \/ \E user \in GuestProfiles : setSession(user)
    \/ getStats
    \/ updateStats
    \/ checkLoginStreak
    \/ logStudyTime(30)
    \/ now < TicksPerDay /\ Tick

SpecStatsUsers == InitStatsUsers /\ [][NextStatsUsers]_vars

\* C15: the local stats table never holds two records with the same userId.
C15_OneStatsPerUser ==
    \A k \in DOMAIN localStorage.STATS : \A j \in DOMAIN localStorage.STATS :
        k # j => localStorage.STATS[k].userId # localStorage.STATS[j].userId

\* C15 witness: both guests have a record, and the one of g2 was just updated a
\* second time
C15_Witness ==
    /\ Len(localStorage.STATS) = 2
    /\ currentUserId = "g2"
    /\ last.op = "logStudyTime" /\ last.ok
    /\ last.pre.stats # None
    /\ last.pre.stats[1].notesCreated = 1
    /\ CurrentStats[1].totalTimeStudiedMinutes = 30

-----------------------------------------------------------------------------
\* A guest session or a signed-in session over stores that earlier page loads of
\* the other kind have left

\* the one record the saves of either session are handed
RoutingEntity == Entity("i2", "g1", "x")

\* what a guest session of an earlier page load left in localStorage
GuestLeft ==
    [EmptyLocalStorage EXCEPT
        !.USER_SESSION = "g1",
        !.USERS_DB = [u \in {"g1"} |-> Profile("g1", TRUE, "n1")],
        !.NOTES = <<Entity("i1", "g1", "x")>>,
        !.STATS = <<[createEmptyStats("g1") EXCEPT !.lastLoginDate = 0,
                                                   !.notesCreated = 1]>>]

\* what a signed-in session left in the remote store
AuthLeft ==
    setDoc(setDoc(<<>>, DocPath("a1", "notes", "i1"), Entity("i1", "a1", "y")),
           StatsPath("a1"),
           [createEmptyStats("a1") EXCEPT !.lastLoginDate = 0, !.loginStreak = 1])

InitRouting ==
    /\ now = 0
    /\ tz = 0
    /\ currentUserId = Null
    /\ isGuestMode = TRUE
    /\ localStorage \in {EmptyLocalStorage, GuestLeft}
    /\ db \in {<<>>, AuthLeft}
    /\ last = Call("init", Null, Null, TRUE, Null, Null)
    /\ Quiet

NextRouting ==
    \/ \E user \in StatsProfiles : NoSession /\ setSession(user)
    \/ getNotes
    \/ getSummaries
    \/ getQueue
    \/ getTasks
    \/ getQuizzes
    \/ saveNotes(<<RoutingEntity>>)
    \/ saveSummaries(<<RoutingEntity>>)
    \/ saveQueue(<<RoutingEntity>>)
    \/ saveTasks(<<RoutingEntity>>)
    \/ saveQuiz(RoutingEntity)
    \/ getStats
    \/ updateStats
    \/ checkLoginStreak
    \/ logStudyTime(30)
    \/ now < TicksPerDay /\ Tick

SpecRouting == InitRouting /\ [][NextRouting]_vars

\* what the stats call op leaves and resolves to on stores ls and d
StatsOutcomeOf(op, arg, ls, d, fail) ==
    CASE op = "getStats" -> getStatsOutcome(ls, d, fail = "none")
      [] op = "updateStats" ->
            updateStatsOutcome(ls, d, noteCreated, fail # "first", fail = "none")
      [] op = "checkLoginStreak" -> checkLoginStreakOutcome(ls, d, fail)
      [] op = "logStudyTime" -> logStudyTimeOutcome(ls, d, arg, fail)

\* C16: under a guest session no get, save, saveQuiz or stats call writes the
\* remote store, is rejected, or resolves to or stores anything that depends on
\* the remote store; under a signed-in session none of them writes localStorage
\* or resolves to or stores anything that depends on localStorage.
C16_RoutedByMode ==
    [][ (~NoSession /\ now' = now /\ last'.op \in SaveOps \cup GetOps \cup StatsOps) =>
          IF isGuestMode
          THEN /\ db' = db
               /\ last'.ok
               /\ last'.op \in GetOps =>
                     last'.res = getLocalUserItems(LOCAL_KEYS[last'.coll], currentUserId)
               /\ last'.op \in StatsOps =>
                     LET out == StatsOutcomeOf(last'.op, last'.arg, localStorage, <<>>, "none")
                     IN  /\ localStorage' = out.ls
                         /\ last'.res = out.res
          ELSE /\ localStorage' = localStorage
               /\ (last'.op \in GetOps /\ last'.ok) =>
                     last'.res = getDocs(db, currentUserId, last'.coll)
               /\ last'.op \in StatsOps =>
                     \E fail \in Failures :
                        LET out == StatsOutcomeOf(last'.op, last'.arg,
                                                  EmptyLocalStorage, db, fail)
                        IN  /\ db' = out.db
                            /\ last'.ok = out.ok
                            /\ last'.res = out.res ]_vars

\* C16 witness: a guest's checkLoginStreak, a day after the record's last login,
\* raised the local streak while the remote store holds a signed-in user's
\* documents, which are as they were
C16_Witness ==
    /\ currentUserId = "g1" /\ isGuestMode
    /\ last.op = "checkLoginStreak" /\ last.ok
    /\ last.pre.writes = 1
    /\ CurrentStats # None /\ CurrentStats[1].loginStreak = 1
    /\ db = AuthLeft

-----------------------------------------------------------------------------
\* Guest reads over localStorage as a page load may find it

TableKeys == {LOCAL_KEYS[c] : c \in Collections} \cup {"STATS"}

\* nothing stored, or one table whose text is not a JSON array
FoundAtLoad ==
    {EmptyLocalStorage} \cup {[EmptyLocalStorage EXCEPT ![key] = NotJSON] : key \in TableKeys}

InitMalformed ==
    /\ currentUserId = Null
    /\ isGuestMode = TRUE
    /\ localStorage \in FoundAtLoad
    /\ db = <<>>
    /\ now = 0
    /\ tz = 0
    /\ last = Call("init", Null, Null, TRUE, Null, Null)
    /\ Quiet

NextMalformed ==
    \/ \E user \in GuestProfiles : setSession(user)
    \/ getNotes
    \/ getSummaries
    \/ getQueue
    \/ getTasks
    \/ getQuizzes
    \/ getStats
    \/ now < TicksPerDay /\ Tick

SpecMalformed == InitMalformed /\ [][NextMalformed]_vars

\* the table a get or getStats reads
TableOf(call) == IF call.op = "getStats" THEN "STATS" ELSE LOCAL_KEYS[call.coll]

\* C17: under a guest session, a get or getStats() whose table is absent or is
\* not a parseable JSON array is not rejected and behaves as on an empty table:
\* the get resolves to an empty list, getStats() creates and stores a record.
C17_MalformedLocalDataIsEmpty ==
    [][ ( /\ ~NoSession /\ isGuestMode /\ now' = now
          /\ last'.op \in GetOps \cup {"getStats"}
          /\ localStorage[TableOf(last')] \in {<<>>, NotJSON} )
        => /\ last'.ok
           /\ last'.op \in GetOps => last'.res = <<>>
           /\ last'.op = "getStats" =>
                 /\ last'.res = createEmptyStats(currentUserId)
                 /\ localStorage'.STATS = <<last'.res>> ]_vars

-----------------------------------------------------------------------------
\* The remote writes of a signed-in session

\* lists of one record, and a batch of two
AuthWriteLists ==
    {<<e>> : e \in Entities(AuthIds, Payloads)}
        \cup {<<Entity("i1", "a1", "y"), Entity("i2", "a1", "y")>>}

InitAuthWrites == Init /\ tz = 0

NextAuthWrites ==
    \/ \E user \in AuthProfiles : setSession(user)
    \/ \E items \in AuthWriteLists : saveNotes(items)
    \/ \E items \in AuthWriteLists : saveSummaries(items)
    \/ \E items \in AuthWriteLists : saveQueue(items)
    \/ \E items \in AuthWriteLists : saveTasks(items)
    \/ \E quiz \in AuthQuizzes : saveQuiz(quiz)
    \/ \E user \in AuthProfiles : saveUserProfile(user)
    \/ updateStats

SpecAuthWrites == InitAuthWrites /\ [][NextAuthWrites]_vars

\* C18: in a signed-in session a list save, saveQuiz or saveUserProfile whose
\* write fails is rejected and leaves the remote store as it was (a failed batch
\* has written none of its documents), and one that resolves has written all of
\* it; an updateStats whose write fails is rejected without the update in the
\* store, after one write attempt (and the one of getStats for a missing record).
C18_FailedWriteRejectedOnce ==
    [][ (~NoSession /\ ~isGuestMode
            /\ last'.op \in SaveOps \cup {"saveUserProfile", "updateStats"}) =>
          LET arg == last'.arg
              uid == currentUserId
          IN  /\ last'.op \in ListSaveOps =>
                    db' = IF last'.ok THEN commit(db, saveBatch(uid, last'.coll, arg)) ELSE db
              /\ last'.op = "saveQuiz" =>
                    db' = IF last'.ok THEN setDoc(db, DocPath(uid, "quizzes", arg.id), arg)
                          ELSE db
              /\ last'.op = "saveUserProfile" =>
                    db' = IF last'.ok THEN setDoc(db, ProfilePath(arg.id), arg) ELSE db
              /\ last'.op = "updateStats" =>
                    /\ last'.pre.writes <= (IF exists(db, StatsPath(uid)) THEN 1 ELSE 2)
                    /\ IF last'.ok
                       THEN db' = setDoc(db, StatsPath(uid), last'.res)
                       ELSE db' \in {db, setDoc(db, StatsPath(uid), createEmptyStats(uid))}
                    /\ (~last'.ok /\ exists(db, StatsPath(uid))) => db' = db ]_vars

\* C18 witness: with note i1 stored, the commit of a batch of two notes failed:
\* the call was rejected, i1 is as it was and i2 is not there
C18_Witness ==
    /\ currentUserId = "a1" /\ ~isGuestMode
    /\ last.op = "saveNotes" /\ ~last.ok
    /\ Len(last.arg) = 2
    /\ last.pre = 1
    /\ exists(db, DocPath("a1", "notes", "i1"))
    /\ db[DocPath("a1", "notes", "i1")] = Entity("i1", "a1", "x")
    /\ ~exists(db, DocPath("a1", "notes", "i2"))

-----------------------------------------------------------------------------
\* Record ids within a user's scope

\* no two records of a list share an id
DistinctIds(items) ==
    \A j, k \in DOMAIN items : items[j].id = items[k].id => j = k

\* C21 as stated: in every reachable state, for each user and each of the five
\* collections, no two persisted records of that user share an id.  (Remote
\* documents are keyed by their id, so two of one collection cannot share it.)
C21_IdsUniquePerUser ==
    \A u \in UserIds : \A c \in Collections :
        parses(localStorage, LOCAL_KEYS[c]) => DistinctIds(GuestView(c, u))

-----------------------------------------------------------------------------
\* The App's main flow: guests save notes, users sign in and out (App.tsx)

\* the notes a guest saves
AppLists == {<<>>, <<Entity("i1", "g1", "x")>>, <<Entity("i1", "g2", "x")>>}

\* the profiles a signed-in user saves from the settings
AppProfiles == {Profile(u, FALSE, name) : u \in AuthIds, name \in Names}

InitApp == Init /\ tz = 0

\* loadUserData() awaits checkLoginStreak, getNotes, getSummaries and getStats
\* in turn; the handler that started it has returned by then
NextApp ==
    \/ \E firebaseUser \in AuthIds \cup {Null} : onAuthStateChanged(firebaseUser)
    \/ handleGuestAccess
    \/ handleLogout
    \/ checkLoginStreak
    \/ getNotes
    \/ getSummaries
    \/ getStats
    \/ \E items \in AppLists : currentUserId # Null /\ isGuestMode /\ saveNotes(items)
    \/ \E user \in AppProfiles : currentUserId = user.id /\ saveUserProfile(user)

SpecApp == InitApp /\ [][NextApp]_vars

\* the documents of a user's five remote collections
RemoteRecords(d, uid) ==
    {p \in DOMAIN d : Len(p) = 4 /\ p[2] = uid /\ p[3] \in Collections}

\* C24: no handler of the main flow calls migrateData, so whatever the guests
\* have saved, the remote collections of a signed-in user hold none of it: they
\* hold nothing before the user saves something.
C24_SignInCarriesNothingOver ==
    /\ last.op # "migrateData"
    /\ \A a \in AuthIds : RemoteRecords(db, a) = {}

\* C24 witness: guest g1 has saved a note, a1 has signed in since, and the
\* getNotes of loadUserData has found nothing
C24_Witness ==
    /\ GuestView("notes", "g1") # <<>>
    /\ currentUserId = "a1" /\ ~isGuestMode
    /\ last.op = "getNotes" /\ last.ok /\ last.res = <<>>

\* C28 as stated: the auth callback for a user whose profile document exists
\* leaves that document as it was, also when the fetch of the profile fails.
C28_SignInKeepsProfile ==
    [][ (last'.op = "onAuthStateChanged" /\ last'.arg # Null
            /\ exists(db, ProfilePath(last'.arg)))
        => db'[ProfilePath(last'.arg)] = db[ProfilePath(last'.arg)] ]_vars

\* the steps that call setSession
SessionSetters == {"setSession", "onAuthStateChanged", "handleGuestAccess"}

\* C29: once a session is set the current user id is not null again and changes
\* only in a step that calls setSession; a guest's logout removes the session
\* pointer and nothing else; and after it getNotes still reads, and saveNotes
\* still replaces, the notes of the guest that logged out.
C29_SessionOutlivesLogout ==
    [][ /\ currentUserId # Null =>
              /\ currentUserId' # Null
              /\ (currentUserId' # currentUserId \/ isGuestMode' # isGuestMode)
                    => last'.op \in SessionSetters
        /\ (last'.op = "handleLogout" /\ currentUserId # Null /\ isGuestMode) =>
              /\ localStorage' = [localStorage EXCEPT !.USER_SESSION = Null]
              /\ UNCHANGED <<currentUserId, isGuestMode, db>>
        /\ (currentUserId # Null /\ isGuestMode /\ localStorage.USER_SESSION = Null) =>
              /\ last'.op = "getNotes" =>
                    (last'.ok /\ last'.res = GuestView("notes", currentUserId))
              /\ last'.op = "saveNotes" =>
                    localStorage' = saveLocalUserItems(localStorage, LOCAL_KEYS.notes,
                                                       currentUserId, last'.arg) ]_vars

\* C29 witness: guest g1 has logged out, no session was set since, and a
\* saveNotes after the logout has stored a note of g1
C29_Witness ==
    /\ currentUserId = "g1" /\ isGuestMode
    /\ localStorage.USER_SESSION = Null
    /\ last.op = "saveNotes" /\ last.ok
    /\ GuestView("notes", "g1") = <<Entity("i1", "g1", "x")>>

-----------------------------------------------------------------------------
\* Stats calls that overlap.  A call runs up to its next await in one step; what
\* it awaits is a remote call, answered in a step of its own, or a promise that
\* is already settled, behind which the caller waits in the microtask queue.

\* the updaters that callers hand to updateStats
noteCreatedUpdater == [kind |-> "noteCreated", key |-> 0, n |-> 0]
studyUpdater(todayKey, minutes) == [kind |-> "study", key |-> todayKey, n |-> minutes]
streakUpdater(newStreak) == [kind |-> "streak", key |-> 0, n |-> newStreak]

\* const updated = updater(current)
applyUpdater(upd, s) ==
    CASE upd.kind = "noteCreated" -> noteCreated(s)
      [] upd.kind = "study" -> addStudyTime(s, upd.key, upd.n)
      [] upd.kind = "streak" -> [s EXCEPT !.loginStreak = upd.n, !.lastLoginDate = now]
      [] OTHER -> s

\* a guest write of updateStats that leaves a record that is already stored
putLocalStatsIfAbsent(ls, userId, updated) ==
    LET all == ls.STATS
        idx == findStatsIndex(all, userId)
    IN  IF idx > 0 THEN ls ELSE saveLocalDB(ls, "STATS", Append(all, updated))

\* the guest branch of updateStats: if (idx >= 0) all[idx] = updated; else
\* all.push(updated); saveLocalDB(LOCAL_KEYS.STATS, all)
putLocalStats(ls, userId, updated) ==
    LET all == ls.STATS
        idx == findStatsIndex(all, userId)
    IN  saveLocalDB(ls, "STATS",
                    IF idx > 0 THEN [all EXCEPT ![idx] = updated] ELSE Append(all, updated))

\* a call of a caller: what it was called as, its updater, where it stands, the
\* user of the document it addresses, the stats record it holds, and whether it
\* was rejected
CallAt(op, upd, pc, ref, val, ok) ==
    [op |-> op, upd |-> upd, pc |-> pc, ref |-> ref, val |-> val, ok |-> ok]

\* a step of a call: the call after it, the stores after it, and whether the
\* caller now waits in the microtask queue
Step(call, ls, d, queued) == [call |-> call, ls |-> ls, db |-> d, queued |-> queued]

\* getStats() is called by op: the guest branch runs to its end and the caller
\* awaits the settled promise; the other branch stops at await getDoc(docRef)
callsGetStats(op, upd, ls, d) ==
    IF isGuestMode
    THEN LET out == getStatsOutcome(ls, d, TRUE)
         IN  IF ~out.ok THEN Step(CallAt(op, upd, "done", Null, None, FALSE), ls, d, FALSE)
             ELSE IF op = "getStats"
             THEN Step(CallAt(op, upd, "done", Null, Some(out.res), TRUE), out.ls, d, FALSE)
             ELSE Step(CallAt(op, upd, "got", Null, Some(out.res), TRUE), out.ls, d, TRUE)
    ELSE Step(CallAt(op, upd, "getDoc", currentUserId, None, TRUE), ls, d, FALSE)

\* getStats() has resolved to stats and the function that awaited it goes on:
\* checkLoginStreak compares the dates and calls updateStats, which calls
\* getStats() again; updateStats applies its updater and writes
afterGetStats(call, stats, ls, d) ==
    IF call.op = "getStats"
    THEN Step(CallAt(call.op, call.upd, "done", call.ref, Some(stats), TRUE), ls, d, FALSE)
    ELSE IF call.op = "checkLoginStreak" /\ call.upd.kind = "none"
    THEN IF toDateString(stats.lastLoginDate) # toDateString(now)
         THEN callsGetStats(call.op, streakUpdater(newStreakOf(stats)), ls, d)
         ELSE Step(CallAt(call.op, call.upd, "done", call.ref, None, TRUE), ls, d, FALSE)
    ELSE LET updated == applyUpdater(call.upd, stats)
         IN  IF isGuestMode
             THEN Step(CallAt(call.op, call.upd, "done", call.ref, Some(updated), TRUE),
                       putLocalStats(ls, currentUserId, updated), d, FALSE)
             ELSE Step(CallAt(call.op, call.upd, "setDoc", currentUserId, Some(updated),
                              TRUE), ls, d, FALSE)

\* the records this model lets a call hold
WithinBounds(val) ==
    val # None =>
        /\ val[1].totalTimeStudiedMinutes <= MaxStudyMinutes
        /\ val[1].notesCreated <= MaxNotesCreated
        /\ val[1].loginStreak <= MaxStreak

Free(c) == calls[c].pc \in {"idle", "done"}

\* the step of caller c is taken
Takes(c, step, queue) ==
    /\ WithinBounds(step.call.val)
    /\ Cardinality(DOMAIN step.db) <= MaxRemoteDocs
    /\ Len(step.ls.STATS) <= MaxLocalRecords
    /\ calls' = [calls EXCEPT ![c] = step.call]
    /\ localStorage' = step.ls
    /\ db' = step.db
    /\ microtasks' = IF step.queued THEN Append(queue, c) ELSE queue
    /\ last' = IF step.call.pc = "done"
               THEN Call(step.call.op, Null, step.call.upd, step.call.ok, step.call.val, c)
               ELSE last
    /\ UNCHANGED <<currentUserId, isGuestMode, now, tz, swipeQuiz>>

\* op is called: if (!currentUserId) return ...; then getStats()
called(op, upd, ls, d) ==
    IF currentUserId = Null
    THEN Step(CallAt(op, upd, "done", Null,
                     IF op = "getStats" THEN Some(createEmptyStats("unknown")) ELSE None,
                     TRUE),
              ls, d, FALSE)
    ELSE callsGetStats(op, upd, ls, d)

\* caller c calls op
Starts(c, op, upd) ==
    /\ Free(c)
    /\ Takes(c, called(op, upd, localStorage, db), microtasks)

getStatsStarts(c) == Starts(c, "getStats", NoUpdater)
updateStatsStarts(c) == Starts(c, "updateStats", noteCreatedUpdater)
logStudyTimeStarts(c, minutes) ==
    Starts(c, "logStudyTime", studyUpdater(toISODate(now), minutes))
checkLoginStreakStarts(c) == Starts(c, "checkLoginStreak", NoUpdater)

\* the caller at the head of the microtask queue goes on behind its await
runMicrotask ==
    /\ microtasks # <<>>
    /\ LET c == Head(microtasks)
       IN  Takes(c, afterGetStats(calls[c], calls[c].val[1], localStorage, db),
                 Tail(microtasks))

\* a rejected remote call rejects the call that awaited it
Rejected(call) == CallAt(call.op, call.upd, "done", call.ref, None, FALSE)

\* await getDoc(docRef) is answered, once the microtask queue is empty: with the
\* document, and the caller of getStats goes on, or with none, and getStats
\* makes the empty record of the user that is current now and awaits its setDoc
getDocResponds(c) ==
    /\ calls[c].pc = "getDoc"
    /\ microtasks = <<>>
    /\ \E ok \in BOOLEAN :
        LET call == calls[c]
            path == StatsPath(call.ref)
        IN  Takes(c,
                  IF ~ok THEN Step(Rejected(call), localStorage, db, FALSE)
                  ELSE IF exists(db, path)
                  THEN afterGetStats(call, db[path], localStorage, db)
                  ELSE Step(CallAt(call.op, call.upd, "setDocNew", call.ref,
                                   Some(createEmptyStats(currentUserId)), TRUE),
                            localStorage, db, FALSE),
                  microtasks)

\* await setDoc(docRef, newStats) of getStats is answered: the empty record is
\* stored and the caller of getStats goes on
newStatsStored(c) ==
    /\ calls[c].pc = "setDocNew"
    /\ microtasks = <<>>
    /\ \E ok \in BOOLEAN :
        LET call == calls[c]
        IN  Takes(c,
                  IF ~ok THEN Step(Rejected(call), localStorage, db, FALSE)
                  ELSE afterGetStats(call, call.val[1], localStorage,
                                     setDoc(db, StatsPath(call.ref), call.val[1])),
                  microtasks)

\* await setDoc(doc(db, 'users', currentUserId, 'data', 'stats'), updated) of
\* updateStats is answered: the updated record is stored
updatedStatsStored(c) ==
    /\ calls[c].pc = "setDoc"
    /\ microtasks = <<>>
    /\ \E ok \in BOOLEAN :
        LET call == calls[c]
        IN  Takes(c,
                  IF ~ok THEN Step(Rejected(call), localStorage, db, FALSE)
                  ELSE Step(CallAt(call.op, call.upd, "done", call.ref, call.val, TRUE),
                            localStorage, setDoc(db, StatsPath(call.ref), call.val[1]),
                            FALSE),
                  microtasks)

\* the remote calls in flight are answered, in any order
Responds ==
    \E c \in Callers : getDocResponds(c) \/ newStatsStored(c) \/ updatedStatsStored(c)

-----------------------------------------------------------------------------
\* One session whose callers only read the stats, and may do so at the same time

InitLazyCreate == Init /\ tz = 0

NextLazyCreate ==
    \/ \E user \in StatsProfiles : NoSession /\ setSession(user)
    \/ \E c \in Callers : getStatsStarts(c)
    \/ \E c \in Callers : getDocResponds(c)
    \/ \E c \in Callers : newStatsStored(c)
    \/ Tick

SpecLazyCreate == InitLazyCreate /\ [][NextLazyCreate]_vars

\* C22 as stated: whichever way the getStats() calls of a session overlap, each
\* one that has resolved for the session's user has returned the one record that
\* is persisted for the user, so no two callers hold different records.
C22_LazyCreateAtomic ==
    \A c \in Callers :
        (calls[c].op = "getStats" /\ calls[c].pc = "done" /\ calls[c].ok
            /\ calls[c].val[1].userId = currentUserId)
        => calls[c].val = CurrentStats

-----------------------------------------------------------------------------
\* One session whose callers read and update the stats at the same time

InitOverlap == Init /\ tz = 0

NextOverlap ==
    \/ \E user \in StatsProfiles : NoSession /\ setSession(user)
    \/ \E c \in Callers : getStatsStarts(c)
    \/ \E c \in Callers : updateStatsStarts(c)
    \/ \E c \in Callers, minutes \in StudyMinutes : logStudyTimeStarts(c, minutes)
    \/ runMicrotask
    \/ Responds

SpecOverlap == InitOverlap /\ [][NextOverlap]_vars

\* caller c holds an update and takes its last step in this step
Writes(c) ==
    /\ calls[c].upd.kind # "none"
    /\ calls[c].pc \in {"got", "setDoc"}
    /\ calls'[c].pc = "done" /\ calls'[c].ok

\* C23: updateStats writes its updater's result for the record it has read,
\* whatever is stored by the time it writes (no concurrency check): the guest
\* branch stores updater(current) for the current user, the signed-in branch
\* sets the document to the record it computed when its read was answered.  So
\* of two calls that have both read before either writes, the one that writes
\* last wins.
C23_UpdateStatsLastWriteWins ==
    [][ \A c \in Callers : Writes(c) =>
          IF calls[c].pc = "got"
          THEN /\ isGuestMode
               /\ CurrentStats' = Some(applyUpdater(calls[c].upd, calls[c].val[1]))
               /\ calls'[c].val = CurrentStats'
          ELSE /\ db'[StatsPath(calls[c].ref)] = calls[c].val[1]
               /\ calls'[c].val = calls[c].val ]_vars

\* C23 witness: in a guest session two logStudyTime calls, of 15 and of 30
\* minutes, have both resolved, each to a total of its own minutes only, and the
\* stored total is that of one of them
C23_Witness ==
    /\ currentUserId = "g1" /\ isGuestMode
    /\ \A c \in Callers :
          /\ calls[c].op = "logStudyTime" /\ calls[c].pc = "done" /\ calls[c].ok
          /\ calls[c].val # None
    /\ calls["c1"].val[1].totalTimeStudiedMinutes = 15
    /\ calls["c2"].val[1].totalTimeStudiedMinutes = 30
    /\ CurrentStats # None
    /\ CurrentStats[1].totalTimeStudiedMinutes = 30

\* the record holds what an updater has written
Updated(stats) == stats.notesCreated > 0 \/ stats.totalTimeStudiedMinutes > 0

\* C26 as stated: in a signed-in session, once the stats document holds the
\* result of an updateStats, no step of a getStats() call changes it, however
\* the calls in flight interleave.
C26_GetStatsNeverResets ==
    [][ \A c \in Callers :
          (/\ ~isGuestMode
           /\ calls[c].op = "getStats" /\ calls'[c] # calls[c] /\ ~Free(c)
           /\ exists(db, StatsPath(calls[c].ref))
           /\ Updated(db[StatsPath(calls[c].ref)]))
          => db'[StatsPath(calls[c].ref)] = db[StatsPath(calls[c].ref)] ]_vars

-----------------------------------------------------------------------------
\* Stats calls in flight while the session changes

InitSwitch == Init /\ tz = 0

\* one caller, whose calls follow each other, and the session may change at
\* each await of a call
NextSwitch ==
    \/ \E user \in StatsProfiles : setSession(user)
    \/ getStatsStarts("c1")
    \/ updateStatsStarts("c1")
    \/ checkLoginStreakStarts("c1")
    \/ logStudyTimeStarts("c1", 30)
    \/ runMicrotask
    \/ Responds
    \/ now < TicksPerDay /\ Tick

SpecSwitch == InitSwitch /\ [][NextSwitch]_vars

\* C25 as stated: the stats document at users/u/data/stats, and the local stats
\* entry found for user u, has userId = u, in every state reached with
\* setSession calls between the steps of the stats calls.
C25_StatsUnderItsUser ==
    \A u \in UserIds :
        /\ exists(db, StatsPath(u)) => db[StatsPath(u)].userId = u
        /\ findStatsIndex(localStorage.STATS, u) > 0 =>
              localStorage.STATS[findStatsIndex(localStorage.STATS, u)].userId = u

-----------------------------------------------------------------------------
\* Leaving the focus view (App.tsx, handleFocusExit)

\* if (minutesSpent > 0) { StorageService.logStudyTime(minutesSpent);
\* StorageService.getStats().then(setStats); }: the two calls are started one
\* after the other and neither is awaited; c1 is the caller of logStudyTime and
\* c2 the caller of getStats, whose result goes to setStats
handleFocusExit(minutesSpent) ==
    /\ \A c \in Callers : Free(c)
    /\ IF minutesSpent > 0
       THEN LET logged == called("logStudyTime",
                                 studyUpdater(toISODate(now), minutesSpent),
                                 localStorage, db)
                got == called("getStats", NoUpdater, logged.ls, logged.db)
            IN  /\ calls' = [calls EXCEPT !["c1"] = logged.call, !["c2"] = got.call]
                /\ localStorage' = got.ls
                /\ Len(localStorage'.STATS) <= MaxLocalRecords
                /\ microtasks' = IF logged.queued THEN Append(microtasks, "c1")
                                 ELSE microtasks
       ELSE UNCHANGED <<calls, localStorage, microtasks>>
    /\ last' = Call("handleFocusExit", Null, minutesSpent, TRUE, Null, Null)
    /\ UNCHANGED <<currentUserId, isGuestMode, db, now, tz, swipeQuiz>>

FocusMinutes == {0} \cup StudyMinutes

InitFocus == Init /\ tz = 0

NextFocus ==
    \/ \E user \in StatsProfiles : NoSession /\ setSession(user)
    \/ \E minutesSpent \in FocusMinutes : ~NoSession /\ handleFocusExit(minutesSpent)
    \/ runMicrotask
    \/ Responds

SpecFocus == InitFocus /\ [][NextFocus]_vars

\* C27 as stated: the record that the getStats() of handleFocusExit resolves to,
\* which is handed to setStats, is the record that the logStudyTime() issued
\* just before it has written: getStats() does not resolve before that write
\* and returns what was written.
C27_FocusExitSeesLoggedTime ==
    (calls["c2"].op = "getStats" /\ calls["c2"].pc = "done" /\ calls["c2"].ok)
    => /\ calls["c1"].pc = "done"
       /\ calls["c1"].ok => calls["c2"].val = calls["c1"].val

-----------------------------------------------------------------------------
\* SwipeQuiz (components/SwipeQuiz.tsx).  questions holds the correctIndex of
\* each question (0 = True, 1 = False); currentIndex counts from 0 as in the code.

\* the quizzes that are run
QuizQuestions ==
    {<<a>> : a \in {0, 1}} \cup {<<a, b>> : a \in {0, 1}, b \in {0, 1}}

\* useState(0), useState(0), useState(null), useState([]) at mount
Mounted(questions) ==
    [questions |-> questions, currentIndex |-> 0, score |-> 0, attempted |-> <<>>,
     showResult |-> Null, timers |-> <<>>, completed |-> <<>>]

InitQuiz ==
    /\ currentUserId = Null
    /\ isGuestMode = TRUE
    /\ localStorage = EmptyLocalStorage
    /\ db = <<>>
    /\ now = 0
    /\ tz = 0
    /\ last = Call("init", Null, Null, TRUE, Null, Null)
    /\ calls = [c \in Callers |-> Idle]
    /\ microtasks = <<>>
    /\ swipeQuiz \in {Mounted(questions) : questions \in QuizQuestions}

\* handleSwipe, called by the card's onDragEnd and by the two buttons.  The
\* handler is the one of the last render, so currentIndex, score and
\* attemptedQuestions are the current state; the timer's callback keeps them.
\* questions[currentIndex] is undefined when currentIndex has run past the end,
\* and the handler throws before it has set anything.
handleSwipe(direction) ==
    LET q == swipeQuiz
    IN  /\ Len(q.attempted) < MaxSwipes
        /\ IF q.currentIndex >= Len(q.questions)
           THEN /\ last' = Call("handleSwipe", Null, direction, FALSE, Null, Null)
                /\ UNCHANGED swipeQuiz
           ELSE LET currentQ == q.questions[q.currentIndex + 1]
                    isTrue == currentQ = 0
                    userChoseTrue == direction = "right"
                    isCorrect == (isTrue /\ userChoseTrue) \/ (~isTrue /\ ~userChoseTrue)
                    attemptedQ == [question |-> q.currentIndex, isCorrect |-> isCorrect]
                IN  /\ swipeQuiz' =
                          [q EXCEPT
                             !.score = IF isCorrect THEN q.score + 1 ELSE q.score,
                             !.attempted = Append(q.attempted, attemptedQ),
                             !.showResult = IF isCorrect THEN "correct" ELSE "incorrect",
                             !.timers = Append(q.timers,
                                               [currentIndex |-> q.currentIndex,
                                                score |-> q.score,
                                                isCorrect |-> isCorrect,
                                                attempted |-> Append(q.attempted,
                                                                     attemptedQ)])]
                    /\ last' = Call("handleSwipe", Null, direction, TRUE, Null, Null)
        /\ UNCHANGED <<currentUserId, isGuestMode, localStorage, db, now, tz, calls,
                       microtasks>>

\* the callback of setTimeout(..., 500): timers of one delay run in the order
\* they were set
timerExpires ==
    LET q == swipeQuiz
    IN  /\ q.timers # <<>>
        /\ LET t == Head(q.timers)
           IN  swipeQuiz' =
                 IF t.currentIndex < Len(q.questions) - 1
                 THEN [q EXCEPT !.showResult = Null,
                                !.timers = Tail(q.timers),
                                !.currentIndex = q.currentIndex + 1]
                 ELSE [q EXCEPT !.showResult = Null,
                                !.timers = Tail(q.timers),
                                !.completed =
                                    Append(q.completed,
                                           [score |-> t.score + (IF t.isCorrect THEN 1
                                                                 ELSE 0),
                                            attempted |-> t.attempted])]
        /\ last' = Call("timer", Null, Null, TRUE, Null, Null)
        /\ UNCHANGED <<currentUserId, isGuestMode, localStorage, db, now, tz, calls,
                       microtasks>>

NextQuiz ==
    \/ \E direction \in {"left", "right"} : handleSwipe(direction)
    \/ timerExpires

SpecQuiz == InitQuiz /\ [][NextQuiz]_vars

\* the number of entries answered correctly
CorrectIn(attempted) ==
    Cardinality({k \in DOMAIN attempted : attempted[k].isCorrect})

\* C30 as stated: whatever swipes, button presses and timer expirations follow
\* each other, each question is answered at most once, so neither the number of
\* attempted entries nor the score exceeds questions.length, and onComplete is
\* called at most once, with the number of questions answered correctly.
C30_EachQuestionAnsweredOnce ==
    LET q == swipeQuiz
    IN  /\ \A j, k \in DOMAIN q.attempted :
              q.attempted[j].question = q.attempted[k].question => j = k
        /\ Len(q.attempted) <= Len(q.questions)
        /\ q.score <= Len(q.questions)
        /\ Len(q.completed) <= 1
        /\ \A k \in DOMAIN q.completed :
              /\ q.completed[k].score = CorrectIn(q.completed[k].attempted)
              /\ q.completed[k].score <= Len(q.questions)

====
